---- MODULE Spec2Model ----
(***************************************************************************)
(* The plugin orchestration engine of resume-helper                        *)
(* (src/src/plugins/PluginManager.ts): registry, dependency resolution,    *)
(* configuration pass, execution pass and aggregation of content sections. *)
(***************************************************************************)
EXTENDS Integers, Sequences, FiniteSets, TLC

\* ------------------------------------------------------------------------
\* Bounds and input sets
\* ------------------------------------------------------------------------

\* Identities of the plugins a caller may register.
PluginIds == {"a", "b", "c"}

\* Longest needs list of a registered plugin.
MaxNeeds == 2

\* Most content sections in one plugin result.
MaxSections == 2

NoDup(s) == \A i, j \in 1..Len(s) : i # j => s[i] # s[j]

NeedsLists ==
    {s \in UNION {[1..n -> PluginIds] : n \in 0..MaxNeeds} : NoDup(s)}

Descriptors == [id : PluginIds, needs : NeedsLists, impl : {"generic"}]

\* ------------------------------------------------------------------------
\* State
\* ------------------------------------------------------------------------
VARIABLES
    plugins,        \* PluginManager.plugins: the Map, as its entries in insertion order
    sortedPlugins,  \* PluginManager.sortedPlugins: the cached execution order
    op,             \* the public operation called last, with its argument
    err,            \* the error that escaped the last public operation
    ret,            \* the value the last public operation returned
    pc,             \* where the running pass stands; "idle" between operations
    iter,           \* the array the running pass iterates (what getPlugins returned)
    idx,            \* position of the pass in iter
    config,         \* execute: its config argument; runConfigPrompts: currentConfig
    outputs,        \* execute: outputs, plugin id -> output payload
    allSections,    \* execute: allSections
    deps,           \* execute: the deps object built for the plugin at idx
    log,            \* console lines written by the running pass
    calls,          \* plugin methods the running pass has called, with their arguments
    emitted,        \* sections the plugins have returned to the running pass, in order
    saved,          \* content of the configuration file (saveResumeConfig)
    sortCalled,     \* whether the last call of getPlugins ran topologicalSort
    cmd,            \* the command of the CLI that runs, its options and its phase
    input           \* readMultilineInput: the readline interface, the lines and the promise

managerVars == <<plugins, sortedPlugins>>
callVars == <<op, err, ret>>
passVars == <<pc, iter, idx, config, outputs, allSections, deps, log, calls, emitted>>

vars == <<plugins, sortedPlugins, op, err, ret, pc, iter, idx, config, outputs,
          allSections, deps, log, calls, emitted, saved, sortCalled, cmd, input>>

NoError == [kind |-> "none", plugin |-> "-"]
Void == <<>>

\* ------------------------------------------------------------------------
\* Registry helpers (Map operations)
\* ------------------------------------------------------------------------
RegisteredIds(reg) == {reg[i].id : i \in 1..Len(reg)}

Has(reg, id) == id \in RegisteredIds(reg)

Get(reg, id) == reg[CHOOSE i \in 1..Len(reg) : reg[i].id = id]

\* ------------------------------------------------------------------------
\* topologicalSort: depth-first, post-order, seeded in insertion order
\* ------------------------------------------------------------------------
SortStart == [sorted |-> <<>>, visited |-> {}, visiting |-> {}, err |-> NoError]

CircularDependency(id) == [kind |-> "CircularDependency", plugin |-> id]

RECURSIVE Visit(_, _, _), VisitAll(_, _, _, _)

\* A visit that appends the plugin before its dependencies are visited.
VisitPreOrder(reg, pluginId, st) ==
    IF st.err # NoError THEN st
    ELSE IF pluginId \in st.visited THEN st
    ELSE IF pluginId \in st.visiting
         THEN [st EXCEPT !.err = CircularDependency(pluginId)]
    ELSE IF ~Has(reg, pluginId) THEN st
    ELSE LET plugin == Get(reg, pluginId)
             st1 == [st EXCEPT !.visiting = @ \cup {pluginId},
                               !.sorted = Append(@, plugin)]
             st2 == VisitAll(reg, plugin.needs, 1, st1)
         IN  IF st2.err # NoError THEN st2
             ELSE [st2 EXCEPT !.visiting = @ \ {pluginId},
                              !.visited = @ \cup {pluginId}]

\* A visit that does not look whether the plugin has been visited.
VisitAgain(reg, pluginId, st) ==
    IF st.err # NoError THEN st
    ELSE IF pluginId \in st.visiting
         THEN [st EXCEPT !.err = CircularDependency(pluginId)]
    ELSE IF ~Has(reg, pluginId) THEN st
    ELSE LET plugin == Get(reg, pluginId)
             st1 == [st EXCEPT !.visiting = @ \cup {pluginId}]
             st2 == VisitAll(reg, plugin.needs, 1, st1)
         IN  IF st2.err # NoError THEN st2
             ELSE [st2 EXCEPT !.visiting = @ \ {pluginId},
                              !.visited = @ \cup {pluginId},
                              !.sorted = Append(@, plugin)]

\* A visit that forgets to mark the plugin as being visited.
VisitNoMark(reg, pluginId, st) ==
    IF st.err # NoError THEN st
    ELSE IF pluginId \in st.visited THEN st
    ELSE IF ~Has(reg, pluginId) THEN st
    ELSE LET plugin == Get(reg, pluginId)
             st1 == [st EXCEPT !.visited = @ \cup {pluginId}]
             st2 == VisitAll(reg, plugin.needs, 1, st1)
         IN  [st2 EXCEPT !.sorted = Append(@, plugin)]

Visit(reg, pluginId, st) ==
    IF st.err # NoError THEN st                      \* an exception is propagating
    ELSE IF pluginId \in st.visited THEN st
    ELSE IF pluginId \in st.visiting
         THEN [st EXCEPT !.err = CircularDependency(pluginId)]
    ELSE IF ~Has(reg, pluginId) THEN st
    ELSE LET plugin == Get(reg, pluginId)
             st1 == [st EXCEPT !.visiting = @ \cup {pluginId}]
             st2 == VisitAll(reg, plugin.needs, 1, st1)
         IN  IF st2.err # NoError THEN st2
             ELSE [st2 EXCEPT !.visiting = @ \ {pluginId},
                              !.visited = @ \cup {pluginId},
                              !.sorted = Append(@, plugin)]

\* for (const depId of ids) visit(depId), from position i on
VisitAll(reg, ids, i, st) ==
    IF i > Len(ids) THEN st
    ELSE VisitAll(reg, ids, i + 1, Visit(reg, ids[i], st))

\* The keys of the Map from the last inserted to the first.
KeysReversed(reg) == [i \in 1..Len(reg) |-> reg[Len(reg) + 1 - i].id]

\* this.plugins.keys(): the ids in insertion order
Keys(reg) == [i \in 1..Len(reg) |-> reg[i].id]

TopologicalSort(reg) == VisitAll(reg, Keys(reg), 1, SortStart)

\* ------------------------------------------------------------------------
\* register
\* ------------------------------------------------------------------------
DuplicateIdentity(id) == [kind |-> "DuplicateIdentity", plugin |-> id]

\* A register that overwrites the entry of an identity already present.
RegisterOverwrite(reg, cache, plugin) ==
    IF Has(reg, plugin.id)
    THEN [plugins |-> [i \in 1..Len(reg) |->
                          IF reg[i].id = plugin.id THEN plugin ELSE reg[i]],
          sortedPlugins |-> <<>>, err |-> DuplicateIdentity(plugin.id)]
    ELSE [plugins |-> Append(reg, plugin), sortedPlugins |-> <<>>, err |-> NoError]

RegisterResult(reg, cache, plugin) ==
    IF Has(reg, plugin.id)
    THEN [plugins |-> reg, sortedPlugins |-> cache,
          err |-> DuplicateIdentity(plugin.id)]
    ELSE [plugins |-> Append(reg, plugin), sortedPlugins |-> <<>>, err |-> NoError]

\* What a caller passes to register: any descriptor with a new identity, or a
\* second descriptor for an identity already registered.
RegisterInputs(reg) ==
    {d \in Descriptors :
        Has(reg, d.id) => (d.needs = <<>> \/ d = Get(reg, d.id))}

Register(plugin) ==
    LET r == RegisterResult(plugins, sortedPlugins, plugin)
    IN  /\ pc = "idle"
        /\ plugins' = r.plugins
        /\ sortedPlugins' = r.sortedPlugins
        /\ op' = [name |-> "register", arg |-> plugin]
        /\ err' = r.err
        /\ ret' = Void
        /\ UNCHANGED <<passVars, saved, sortCalled, cmd, input>>

\* ------------------------------------------------------------------------
\* getPlugins
\* ------------------------------------------------------------------------
\* A getPlugins that sorts at every call.
GetPluginsAlwaysSorts(reg, cache) ==
    IF Len(reg) > 0
    THEN LET st == TopologicalSort(reg)
         IN  IF st.err # NoError
             THEN [sortedPlugins |-> cache, err |-> st.err, sorted |-> TRUE]
             ELSE [sortedPlugins |-> st.sorted, err |-> NoError, sorted |-> TRUE]
    ELSE [sortedPlugins |-> cache, err |-> NoError, sorted |-> FALSE]

\* The order getPlugins returns and the cache it leaves, or the error it
\* throws, and whether it ran topologicalSort.
GetPluginsResult(reg, cache) ==
    IF Len(cache) = 0 /\ Len(reg) > 0
    THEN LET st == TopologicalSort(reg)
         IN  IF st.err # NoError
             THEN [sortedPlugins |-> cache, err |-> st.err, sorted |-> TRUE]
             ELSE [sortedPlugins |-> st.sorted, err |-> NoError, sorted |-> TRUE]
    ELSE [sortedPlugins |-> cache, err |-> NoError, sorted |-> FALSE]

GetPlugins ==
    LET r == GetPluginsResult(plugins, sortedPlugins)
    IN  /\ pc = "idle"
        /\ sortedPlugins' = r.sortedPlugins
        /\ op' = [name |-> "getPlugins", arg |-> Void]
        /\ err' = r.err
        /\ ret' = IF r.err = NoError THEN r.sortedPlugins ELSE Void
        /\ sortCalled' = r.sorted
        /\ UNCHANGED <<plugins, passVars, saved, cmd, input>>

\* ------------------------------------------------------------------------
\* getSensitiveKeys
\* ------------------------------------------------------------------------
\* plugin.sensitiveConfigKeys, an optional property
SensitiveConfigKeys(plugin) ==
    IF "sensitiveConfigKeys" \in DOMAIN plugin
    THEN {plugin.sensitiveConfigKeys[k] : k \in 1..Len(plugin.sensitiveConfigKeys)}
    ELSE {}

\* A getSensitiveKeys that returns once a plugin has declared keys.
GetSensitiveKeysOfFirst(reg) ==
    IF \E i \in 1..Len(reg) : SensitiveConfigKeys(reg[i]) # {}
    THEN SensitiveConfigKeys(reg[CHOOSE i \in 1..Len(reg) :
                                    /\ SensitiveConfigKeys(reg[i]) # {}
                                    /\ \A j \in 1..i - 1 : SensitiveConfigKeys(reg[j]) = {}])
    ELSE {}

GetSensitiveKeysResult(reg) ==
    UNION {SensitiveConfigKeys(reg[i]) : i \in 1..Len(reg)}

GetSensitiveKeys ==
    /\ pc = "idle"
    /\ op' = [name |-> "getSensitiveKeys", arg |-> Void]
    /\ err' = NoError
    /\ ret' = GetSensitiveKeysResult(plugins)
    /\ UNCHANGED <<managerVars, passVars, saved, sortCalled, cmd, input>>

\* ------------------------------------------------------------------------
\* Specification of the registry: register and getPlugins called in any order
\* ------------------------------------------------------------------------
EmptyMap == [x \in {} |-> x]

\* The configuration file: absent, or holding one JSON object.
NoFile == <<>>

File(fields) == <<fields>>

\* readMultilineInput has not been called.
NoInput ==
    [phase |-> "idle", lines |-> <<>>, closeListener |-> FALSE, closed |-> FALSE,
     resolveCalls |-> 0, result |-> <<>>, entered |-> <<>>, eof |-> FALSE]

\* No command of the CLI is running.
NoCommand == [name |-> "none", phase |-> "done"]

Init ==
    /\ plugins = <<>>
    /\ sortedPlugins = <<>>
    /\ op = [name |-> "new", arg |-> Void]
    /\ err = NoError
    /\ ret = Void
    /\ pc = "idle"
    /\ iter = <<>>
    /\ idx = 0
    /\ config = Void
    /\ outputs = EmptyMap
    /\ allSections = <<>>
    /\ deps = EmptyMap
    /\ log = <<>>
    /\ calls = <<>>
    /\ emitted = <<>>
    /\ saved = NoFile
    /\ sortCalled = FALSE
    /\ cmd = NoCommand
    /\ input = NoInput

RegisterAny == \E d \in RegisterInputs(plugins) : Register(d)

NextRegistry == RegisterAny \/ GetPlugins

SpecRegistry == Init /\ [][NextRegistry]_vars

\* ------------------------------------------------------------------------
\* Plugins as the passes see them
\* ------------------------------------------------------------------------
\* ConfigValue<T>: the actual value, "$pending" or "$declined".
TriState == {"$pending", "$declined", "value"}

\* The fields of ResumeConfig the plugins read and decide (arrays are written
\* "[]" when empty and "[x]" when not), and one field for each generic plugin.
ResumeConfigKeys ==
    {"companyName", "startDate", "endDate", "repositories", "authorEmails",
     "githubToken", "templatePath", "templateContent", "slackAiFilePath",
     "slackAiContent", "language", "maxCommits", "minimumCommitChanges"}

ConfigKeys == {"a", "b", "c", "git"} \cup ResumeConfigKeys

\* The configuration field a plugin's promptForConfig decides.
KeyOf(id) == IF id = "github" THEN "githubToken" ELSE id

\* defaultConfig
DefaultFields ==
    [k \in ConfigKeys |->
        IF k \in {"companyName", "startDate", "endDate"} THEN ""
        ELSE IF k \in {"repositories", "authorEmails"} THEN "[]"
        ELSE IF k = "language" THEN "English"
        ELSE IF k = "maxCommits" THEN "100"
        ELSE IF k = "minimumCommitChanges" THEN "3"
        ELSE "$pending"]

\* A configuration object: its identity (for !==) and its content.
ConfigObject(ref, fields) == [ref |-> ref, fields |-> fields]

\* Priorities the plugins give their sections.
Priorities == {5, 10}

\* Output payloads: the repositories of a GitPluginOutput, each by its isGitHub.
Payloads == {[repositories |-> <<TRUE>>], [repositories |-> <<FALSE>>]}

SectionLists(id) ==
    {[k \in 1..n |-> [sourcePlugin |-> id, priority |-> prios[k], title |-> k]] :
        n \in 0..MaxSections, prios \in [1..MaxSections -> Priorities]}

\* What generateContent may resolve with, besides null.
Results(id) == [output : Payloads, sections : SectionLists(id)]

\* The priorities the built-in plugins give their sections.
BuiltinPriorities(impl) ==
    IF impl = "language" THEN <<0>>
    ELSE IF impl = "template" THEN <<1>>
    ELSE IF impl = "git" THEN <<10, 5>>
    ELSE IF impl = "github" THEN <<15>>
    ELSE <<20>>

\* The output of a built-in plugin that found content: for git one
\* repository, hosted on GitHub.
BuiltinOutput(impl) ==
    IF impl = "git" THEN [repositories |-> <<TRUE>>]
    ELSE IF impl = "github" THEN [pullRequests |-> <<"pr">>]
    ELSE IF impl = "language" THEN [language |-> "language"]
    ELSE IF impl = "template" THEN [templateContent |-> "content"]
    ELSE [slackContext |-> "content"]

\* The result of a built-in plugin that found content.
BuiltinResults(plugin) ==
    {[output |-> BuiltinOutput(plugin.impl),
      sections |-> [k \in 1..Len(BuiltinPriorities(plugin.impl)) |->
                      [sourcePlugin |-> plugin.id,
                       priority |-> BuiltinPriorities(plugin.impl)[k],
                       title |-> k]]]}

\* What generateContent of a plugin may resolve with, besides null.
ResultsOf(plugin) ==
    IF plugin.impl \in {"language", "template", "git", "github", "slack-ai"}
    THEN BuiltinResults(plugin)
    ELSE Results(plugin.id)

Plugin(id, needs) == [id |-> id, needs |-> needs, impl |-> "generic"]

GitPlugin == [id |-> "git", needs |-> <<>>, impl |-> "generic"]

GitHubPlugin ==
    [id |-> "github", needs |-> <<"git">>, impl |-> "github",
     sensitiveConfigKeys |-> <<"githubToken">>]

LanguagePlugin == [id |-> "language", needs |-> <<>>, impl |-> "language"]

TemplatePlugin == [id |-> "template", needs |-> <<>>, impl |-> "template"]

\* The git plugin with the behaviour of GitPrompt (GitPlugin leaves it open).
GitPromptPlugin == [id |-> "git", needs |-> <<>>, impl |-> "git"]

SlackAIPlugin == [id |-> "slack-ai", needs |-> <<>>, impl |-> "slack-ai"]

\* The register calls of initializePlugins, in order.
Builtins ==
    <<LanguagePlugin, TemplatePlugin, GitPromptPlugin, GitHubPlugin, SlackAIPlugin>>

\* Registries set up at startup, each by its register calls in order.
Batches ==
    { <<Plugin("a", <<>>)>>,
      <<Plugin("a", <<>>), Plugin("b", <<"a">>)>>,
      <<Plugin("c", <<"b">>), Plugin("b", <<"a">>), Plugin("a", <<>>)>>,
      <<Plugin("a", <<>>), Plugin("b", <<>>), Plugin("c", <<"b">>)>>,
      <<Plugin("c", <<"a", "b">>), Plugin("a", <<>>), Plugin("b", <<>>)>>,
      <<Plugin("a", <<"b">>), Plugin("c", <<>>)>>,
      <<Plugin("c", <<"b", "a">>), Plugin("a", <<>>)>>,
      <<Plugin("a", <<"b">>), Plugin("b", <<"a">>)>>,
      <<GitPlugin, GitHubPlugin>> }

RECURSIVE RegisterAllFrom(_, _, _, _)
RegisterAllFrom(reg, cache, batch, i) ==
    IF i > Len(batch) THEN [plugins |-> reg, sortedPlugins |-> cache, err |-> NoError]
    ELSE LET r == RegisterResult(reg, cache, batch[i])
         IN  IF r.err # NoError THEN r
             ELSE RegisterAllFrom(r.plugins, r.sortedPlugins, batch, i + 1)

\* initializePlugins: the register calls made once at startup.
InitializePlugins(batch) ==
    LET r == RegisterAllFrom(plugins, sortedPlugins, batch, 1)
    IN  /\ pc = "idle"
        /\ op.name = "new"
        /\ plugins' = r.plugins
        /\ sortedPlugins' = r.sortedPlugins
        /\ op' = [name |-> "initializePlugins", arg |-> batch]
        /\ err' = r.err
        /\ ret' = Void
        /\ UNCHANGED <<passVars, saved, sortCalled, cmd, input>>

\* ------------------------------------------------------------------------
\* execute
\* ------------------------------------------------------------------------
Range(s) == {s[k] : k \in 1..Len(s)}

\* A buildDeps that hands over every output recorded so far.
BuildDepsAll(needs, outs) == outs

\* A buildDeps that has an entry for every id of needs, undefined or not.
BuildDepsEveryNeed(needs, outs) ==
    [depId \in Range(needs) |->
        IF depId \in DOMAIN outs THEN outs[depId] ELSE "undefined"]

\* for (const depId of needs) if (outputs[depId] !== undefined) deps[depId] = ...
BuildDeps(needs, outs) ==
    [depId \in Range(needs) \cap DOMAIN outs |-> outs[depId]]

\* A canRun of the github plugin that looks at the token alone.
GitHubCanRunTokenOnly(cfg, d) ==
    cfg.fields["githubToken"] \notin {"$pending", "$declined"}

\* GitHubPrompt.canRun
GitHubCanRun(cfg, d) ==
    IF cfg.fields["githubToken"] \in {"$pending", "$declined"} THEN FALSE
    ELSE IF "git" \notin DOMAIN d THEN FALSE
    ELSE \E k \in 1..Len(d["git"].repositories) : d["git"].repositories[k]

\* GitPrompt.canRun
GitCanRun(cfg) ==
    /\ cfg.fields["repositories"] \notin {"[]", ""}
    /\ cfg.fields["authorEmails"] \notin {"[]", ""}
    /\ cfg.fields["startDate"] # ""
    /\ cfg.fields["endDate"] # ""

\* Paths whose file has been removed since they were stored.
MissingFiles == {"/gone"}

\* existsSync(path): false for a file that has been removed; for any other
\* path the file may be there or not.
ExistsSync(path) == IF path \in MissingFiles THEN {FALSE} ELSE {TRUE, FALSE}

\* TemplatePrompt.canRun and SlackAIPrompt.canRun: inline content, or a file
\* path and what existsSync says of it.
ContentCanRun(cfg, pathKey, contentKey) ==
    IF cfg.fields[contentKey] \notin {"$pending", "$declined"} THEN {"true"}
    ELSE IF cfg.fields[pathKey] \notin {"$pending", "$declined"}
         THEN {IF exists THEN "true" ELSE "false" : exists \in ExistsSync(cfg.fields[pathKey])}
    ELSE {"false"}

\* What plugin.canRun(config, deps) may do: return true or false, or throw.
CanRunOutcomes(plugin, cfg, d) ==
    IF plugin.impl = "github"
    THEN {IF GitHubCanRun(cfg, d) THEN "true" ELSE "false"}
    ELSE IF plugin.impl = "git"
    THEN {IF GitCanRun(cfg) THEN "true" ELSE "false"}
    ELSE IF plugin.impl = "language"
    THEN {IF cfg.fields["language"] # "" THEN "true" ELSE "false"}
    ELSE IF plugin.impl = "template"
    THEN ContentCanRun(cfg, "templatePath", "templateContent")
    ELSE IF plugin.impl = "slack-ai"
    THEN ContentCanRun(cfg, "slackAiFilePath", "slackAiContent")
    ELSE {"true", "false", "throw"}

PluginError(id) == [kind |-> "PluginError", plugin |-> id]

Line(id, line) == [plugin |-> id, line |-> line]

Call(id, step, arg) == [plugin |-> id, step |-> step, arg |-> arg]

\* a.priority - b.priority
Compare(a, b) == a.priority - b.priority

\* A sort that puts an element before the elements it compares equal to.
RECURSIVE InsertBeforeEqual(_, _)
InsertBeforeEqual(s, x) ==
    IF s = <<>> THEN <<x>>
    ELSE IF Compare(s[Len(s)], x) >= 0
         THEN Append(InsertBeforeEqual(SubSeq(s, 1, Len(s) - 1), x), s[Len(s)])
         ELSE Append(s, x)

RECURSIVE SortUnstable(_)
SortUnstable(s) ==
    IF s = <<>> THEN <<>>
    ELSE InsertBeforeEqual(SortUnstable(SubSeq(s, 1, Len(s) - 1)), s[Len(s)])

\* Array.prototype.sort with Compare: ascending and stable.
RECURSIVE InsertSorted(_, _)
InsertSorted(s, x) ==
    IF s = <<>> THEN <<x>>
    ELSE IF Compare(s[Len(s)], x) > 0
         THEN Append(InsertSorted(SubSeq(s, 1, Len(s) - 1), x), s[Len(s)])
         ELSE Append(s, x)

RECURSIVE SortSections(_)
SortSections(s) ==
    IF s = <<>> THEN <<>>
    ELSE InsertSorted(SortSections(SubSeq(s, 1, Len(s) - 1)), s[Len(s)])

ExecConfigs ==
    {ConfigObject(0, [DefaultFields EXCEPT !["githubToken"] = t]) : t \in TriState}

\* An execute that iterates the Map itself when getPlugins throws.
ExecuteStartUnsorted(cfg) ==
    LET r == GetPluginsResult(plugins, sortedPlugins)
    IN  /\ pc = "idle"
        /\ op' = [name |-> "execute", arg |-> cfg]
        /\ config' = cfg
        /\ outputs' = EmptyMap
        /\ allSections' = <<>>
        /\ deps' = EmptyMap
        /\ log' = <<Line("-", "executing")>>
        /\ calls' = <<>>
        /\ emitted' = <<>>
        /\ ret' = Void
        /\ err' = NoError
        /\ sortedPlugins' = r.sortedPlugins
        /\ pc' = "exec_loop"
        /\ iter' = IF r.err # NoError THEN plugins ELSE r.sortedPlugins
        /\ idx' = 1
        /\ sortCalled' = r.sorted
        /\ UNCHANGED <<plugins, saved>>

\* const outputs = {}; const allSections = []; the "Executing" line; then the
\* first call of getPlugins, which may throw.
ExecuteStart(cfg) ==
    LET r == GetPluginsResult(plugins, sortedPlugins)
    IN  /\ pc = "idle"
        /\ op' = [name |-> "execute", arg |-> cfg]
        /\ config' = cfg
        /\ outputs' = EmptyMap
        /\ allSections' = <<>>
        /\ deps' = EmptyMap
        /\ log' = <<Line("-", "executing")>>
        /\ calls' = <<>>
        /\ emitted' = <<>>
        /\ ret' = Void
        /\ err' = r.err
        /\ sortedPlugins' = r.sortedPlugins
        /\ IF r.err # NoError
           THEN pc' = "idle" /\ iter' = <<>> /\ idx' = 0
           ELSE pc' = "exec_loop" /\ iter' = r.sortedPlugins /\ idx' = 1
        /\ sortCalled' = r.sorted
        /\ UNCHANGED <<plugins, saved>>

AtPlugin == pc = "exec_loop" /\ idx <= Len(iter)

\* canRun throws: nothing catches it, execute rejects.
ExecCanRunThrows ==
    /\ AtPlugin
    /\ LET plugin == iter[idx]
           d == BuildDeps(plugin.needs, outputs)
       IN  /\ "throw" \in CanRunOutcomes(plugin, config, d)
           /\ deps' = d
           /\ calls' = Append(calls, Call(plugin.id, "canRun", d))
           /\ err' = PluginError(plugin.id)
           /\ pc' = "idle"
    /\ UNCHANGED <<managerVars, op, ret, iter, idx, config, outputs, allSections,
                   log, emitted, saved, sortCalled, cmd, input>>

\* A loop that logs the skip and calls generateContent all the same.
ExecSkipButRun ==
    /\ AtPlugin
    /\ LET plugin == iter[idx]
           d == BuildDeps(plugin.needs, outputs)
       IN  /\ "false" \in CanRunOutcomes(plugin, config, d)
           /\ deps' = d
           /\ calls' = calls \o <<Call(plugin.id, "canRun", d),
                                  Call(plugin.id, "generateContent", d)>>
           /\ log' = Append(log, Line(plugin.id, "skipping"))
           /\ pc' = "exec_generate"
    /\ UNCHANGED <<managerVars, callVars, iter, idx, config, outputs, allSections,
                   emitted, saved, sortCalled, cmd, input>>

\* canRun returns false: the plugin is skipped.
ExecSkip ==
    /\ AtPlugin
    /\ LET plugin == iter[idx]
           d == BuildDeps(plugin.needs, outputs)
       IN  /\ "false" \in CanRunOutcomes(plugin, config, d)
           /\ deps' = d
           /\ calls' = Append(calls, Call(plugin.id, "canRun", d))
           /\ log' = Append(log, Line(plugin.id, "skipping"))
           /\ idx' = idx + 1
    /\ UNCHANGED <<managerVars, callVars, pc, iter, config, outputs, allSections,
                   emitted, saved, sortCalled, cmd, input>>

\* canRun returns true: generateContent is called and awaited.
ExecRun ==
    /\ AtPlugin
    /\ LET plugin == iter[idx]
           d == BuildDeps(plugin.needs, outputs)
       IN  /\ "true" \in CanRunOutcomes(plugin, config, d)
           /\ deps' = d
           /\ calls' = calls \o <<Call(plugin.id, "canRun", d),
                                  Call(plugin.id, "generateContent", d)>>
           /\ log' = Append(log, Line(plugin.id, "running"))
           /\ pc' = "exec_generate"
    /\ UNCHANGED <<managerVars, callVars, iter, idx, config, outputs, allSections,
                   emitted, saved, sortCalled, cmd, input>>

\* A result handling that records the output but drops the sections after
\* the first.
RecordFirstSection(outs, secs, id, result) ==
    [outputs |-> [x \in DOMAIN outs \cup {id} |->
                     IF x = id THEN result.output ELSE outs[x]],
     allSections |-> IF Len(result.sections) > 0
                     THEN Append(secs, result.sections[1]) ELSE secs]

\* A result handling that starts the outputs anew at every result.
RecordAlone(outs, secs, id, result) ==
    [outputs |-> [x \in {id} |-> result.output],
     allSections |-> IF Len(result.sections) > 0
                     THEN secs \o result.sections ELSE secs]

\* A result handling that records the output only of a result with sections.
RecordOnlyWithSections(outs, secs, id, result) ==
    IF Len(result.sections) > 0
    THEN [outputs |-> [x \in DOMAIN outs \cup {id} |->
                          IF x = id THEN result.output ELSE outs[x]],
          allSections |-> secs \o result.sections]
    ELSE [outputs |-> outs, allSections |-> secs]

\* outputs[plugin.id] = result.output; allSections.push(...result.sections)
RecordResult(outs, secs, id, result) ==
    [outputs |-> [x \in DOMAIN outs \cup {id} |->
                     IF x = id THEN result.output ELSE outs[x]],
     allSections |-> IF Len(result.sections) > 0
                     THEN secs \o result.sections ELSE secs]

\* generateContent resolves with a result.
ExecGenerateResult(result) ==
    /\ pc = "exec_generate"
    /\ LET plugin == iter[idx]
           r == RecordResult(outputs, allSections, plugin.id, result)
       IN  /\ outputs' = r.outputs
           /\ allSections' = r.allSections
           /\ emitted' = emitted \o result.sections
           /\ log' = Append(log, Line(plugin.id,
                        IF Len(result.sections) > 0 THEN "generated" ELSE "noContent"))
    /\ idx' = idx + 1
    /\ pc' = "exec_loop"
    /\ UNCHANGED <<managerVars, callVars, iter, config, deps, calls, saved, sortCalled, cmd, input>>

\* generateContent resolves with null.
ExecGenerateNull ==
    /\ pc = "exec_generate"
    /\ log' = Append(log, Line(iter[idx].id, "null"))
    /\ idx' = idx + 1
    /\ pc' = "exec_loop"
    /\ UNCHANGED <<managerVars, callVars, iter, config, outputs, allSections, deps,
                   calls, emitted, saved, sortCalled, cmd, input>>

\* generateContent rejects: caught, logged, no output stored.
ExecGenerateThrows ==
    /\ pc = "exec_generate"
    /\ log' = Append(log, Line(iter[idx].id, "error"))
    /\ idx' = idx + 1
    /\ pc' = "exec_loop"
    /\ UNCHANGED <<managerVars, callVars, iter, config, outputs, allSections, deps,
                   calls, emitted, saved, sortCalled, cmd, input>>

\* After the loop: allSections.sort(...); return allSections.
ExecuteReturn ==
    /\ pc = "exec_loop"
    /\ idx > Len(iter)
    /\ allSections' = SortSections(allSections)
    /\ ret' = allSections'
    /\ pc' = "idle"
    /\ UNCHANGED <<managerVars, op, err, iter, idx, config, outputs, deps, log,
                   calls, emitted, saved, sortCalled, cmd, input>>

Startup == \E batch \in Batches : InitializePlugins(batch)

ExecuteCall == UNCHANGED <<cmd, input>> /\ \E cfg \in ExecConfigs : ExecuteStart(cfg)

ExecGenerateResolves ==
    /\ pc = "exec_generate"
    /\ \E result \in ResultsOf(iter[idx]) : ExecGenerateResult(result)

NextExecute ==
    \/ Startup
    \/ ExecuteCall
    \/ ExecCanRunThrows
    \/ ExecSkip
    \/ ExecRun
    \/ ExecGenerateResolves
    \/ ExecGenerateNull
    \/ ExecGenerateThrows
    \/ ExecuteReturn

SpecExecute == Init /\ [][NextExecute]_vars

\* ------------------------------------------------------------------------
\* runConfigPrompts
\* ------------------------------------------------------------------------
CancelMessage == "Configuration cancelled"

\* What a promptForConfig may throw, by its message.
ThrownErrors == {CancelMessage, "prompt failed"}

ConfigurationCancelled(id) == [kind |-> "ConfigurationCancelled", plugin |-> id]

\* loadResumeConfig: the defaults overlaid with the content of the file.
LoadedFields(file) == IF file = NoFile THEN DefaultFields ELSE file[1]

\* The configurations the generate command passes: the defaults, or what it loaded.
ConfigInputs(file) ==
    {ConfigObject(0, DefaultFields), ConfigObject(0, LoadedFields(file))}

\* ------------------------------------------------------------------------
\* promptForConfig of the built-in plugins: what a call may do, as the
\* prompts it puts to the operator and the object it returns or the error
\* it throws
\* ------------------------------------------------------------------------
Returns(asked, cfg) == [asked |-> asked, kind |-> "returns", value |-> cfg]

Throws(asked, error) == [asked |-> asked, kind |-> "throws", value |-> error]

\* { ...config, <changes> }: a new object.
With(cfg, changes) ==
    ConfigObject(cfg.ref + 1,
                 [k \in ConfigKeys |->
                     IF k \in DOMAIN changes THEN changes[k] ELSE cfg.fields[k]])

\* value !== "$pending" && value !== "$declined"
IsSet(v) == v \notin {"$pending", "$declined"}

\* JavaScript truthiness of a field value: only the empty string is falsy.
Truthy(v) == v # ""

\* value.length === 0, of an array or a string
LengthIsZero(v) == v \in {"[]", ""}

\* What the operator may type or choose.
TokenAnswers == {"", "ghp_secret"}

PastedContents == {"", "content"}

FilePathAnswers == {"", "/path"}

TemplateChoices == {"paste", "file", "skip"}

SlackChoices == {"generate", "paste", "file", "skip"}

LanguageChoices == {"French"}

Declined(pathKey, contentKey) ==
    [k \in {pathKey, contentKey} |-> "$declined"]

\* A step of the github plugin that returns at once only when a token is set.
GitHubPromptSkipsOnlyWithToken(cfg, options) ==
    LET currentValue == cfg.fields["githubToken"]
        AskToken(asked) ==
            {Throws(Append(asked, "githubToken"), CancelMessage)} \cup
            {Returns(Append(asked, "githubToken"),
                     With(cfg, [k \in {"githubToken"} |->
                                   IF token = "" THEN "$declined" ELSE token])) :
                token \in TokenAnswers}
    IN  IF ~options.reset /\ IsSet(currentValue)
        THEN {Returns(<<>>, cfg)}
        ELSE IF options.reset /\ IsSet(currentValue)
             THEN {Throws(<<"keepExisting">>, CancelMessage),
                   Returns(<<"keepExisting">>, cfg)}
                  \cup AskToken(<<"keepExisting">>)
             ELSE AskToken(<<>>)

\* GitHubPrompt.promptForConfig
GitHubPromptForConfig(cfg, options) ==
    LET currentValue == cfg.fields["githubToken"]
        AskToken(asked) ==
            {Throws(Append(asked, "githubToken"), CancelMessage)} \cup
            {Returns(Append(asked, "githubToken"),
                     With(cfg, [k \in {"githubToken"} |->
                                   IF token = "" THEN "$declined" ELSE token])) :
                token \in TokenAnswers}
    IN  IF ~options.reset /\ currentValue # "$pending"
        THEN {Returns(<<>>, cfg)}
        ELSE IF options.reset /\ IsSet(currentValue)
             THEN {Throws(<<"keepExisting">>, CancelMessage),
                   Returns(<<"keepExisting">>, cfg)}
                  \cup AskToken(<<"keepExisting">>)
             ELSE AskToken(<<>>)

\* The part TemplatePrompt.promptForConfig and SlackAIPrompt.promptForConfig
\* have in common after the choice: pasted content, or a file path.
PasteOutcomes(cfg, asked, pathKey, contentKey) ==
    {Returns(Append(asked, contentKey),
             With(cfg, IF content = ""
                       THEN Declined(pathKey, contentKey)
                       ELSE [k \in {pathKey, contentKey} |->
                                IF k = pathKey THEN "$declined" ELSE content])) :
        content \in PastedContents}

FileOutcomes(cfg, asked, pathKey, contentKey) ==
    {Throws(Append(asked, pathKey), CancelMessage),
     \* nothing typed, or existsSync(filePath) false
     Returns(Append(asked, pathKey), With(cfg, Declined(pathKey, contentKey)))}
    \cup
    {Returns(Append(asked, pathKey),
             With(cfg, [k \in {pathKey, contentKey} |->
                           IF k = pathKey THEN filePath ELSE "$declined"])) :
        filePath \in FilePathAnswers \ {""}}

\* TemplatePrompt.promptForConfig
TemplatePromptForConfig(cfg, options) ==
    LET hasExistingPath == IsSet(cfg.fields["templatePath"])
        hasExistingContent == IsSet(cfg.fields["templateContent"])
        asked == <<"templateChoice">>
        Prompting ==
            {Throws(asked, CancelMessage),
             Returns(asked, With(cfg, Declined("templatePath", "templateContent")))}
            \cup PasteOutcomes(cfg, asked, "templatePath", "templateContent")
            \cup FileOutcomes(cfg, asked, "templatePath", "templateContent")
        AfterPathCheck ==
            IF ~options.reset /\ "$declined" \in {cfg.fields["templatePath"],
                                                  cfg.fields["templateContent"]}
            THEN {Returns(<<>>, cfg)}
            ELSE Prompting
    IN  IF hasExistingContent /\ ~options.reset
        THEN {Returns(<<>>, cfg)}
        ELSE IF hasExistingPath /\ ~options.reset
             \* existsSync(config.templatePath): true, or false
             THEN (IF TRUE \in ExistsSync(cfg.fields["templatePath"])
                   THEN {Returns(<<>>, cfg)} ELSE {})
                  \cup (IF FALSE \in ExistsSync(cfg.fields["templatePath"])
                        THEN AfterPathCheck ELSE {})
             ELSE AfterPathCheck

\* SlackAIPrompt.promptForConfig, with handleGeneratePrompt
SlackAIPromptForConfig(cfg, options) ==
    LET hasExistingPath == IsSet(cfg.fields["slackAiFilePath"])
        hasExistingContent == IsSet(cfg.fields["slackAiContent"])
        asked == <<"slackChoice">>
        Generate ==
            {Throws(Append(asked, "channels"), CancelMessage),
             Returns(Append(asked, "channels"),
                     With(cfg, [k \in {"slackAiFilePath", "slackAiContent"} |->
                                   "$pending"]))}
        Prompting ==
            {Throws(asked, CancelMessage),
             Returns(asked, With(cfg, Declined("slackAiFilePath", "slackAiContent")))}
            \cup Generate
            \cup PasteOutcomes(cfg, asked, "slackAiFilePath", "slackAiContent")
            \cup FileOutcomes(cfg, asked, "slackAiFilePath", "slackAiContent")
        AfterPathCheck ==
            IF ~options.reset /\ "$declined" \in {cfg.fields["slackAiFilePath"],
                                                  cfg.fields["slackAiContent"]}
            THEN {Returns(<<>>, cfg)}
            ELSE Prompting
    IN  IF hasExistingContent /\ ~options.reset
        THEN {Returns(<<>>, cfg)}
        ELSE IF hasExistingPath /\ ~options.reset
             \* existsSync(config.slackAiFilePath): true, or false
             THEN (IF TRUE \in ExistsSync(cfg.fields["slackAiFilePath"])
                   THEN {Returns(<<>>, cfg)} ELSE {})
                  \cup (IF FALSE \in ExistsSync(cfg.fields["slackAiFilePath"])
                        THEN AfterPathCheck ELSE {})
             ELSE AfterPathCheck

\* LanguagePrompt.promptForConfig
LanguagePromptForConfig(cfg, options) ==
    IF Truthy(cfg.fields["language"]) /\ ~options.reset
    THEN {Returns(<<>>, cfg)}
    ELSE {Throws(<<"language">>, CancelMessage)} \cup
         {Returns(<<"language">>, With(cfg, [k \in {"language"} |-> language])) :
             language \in LanguageChoices}

\* The prompts GitPrompt.promptForConfig puts, in order.
GitPromptQuestions(cfg, options) ==
    LET f == cfg.fields
    IN  (IF ~Truthy(f["companyName"]) \/ options.reset
         THEN <<"companyName">> ELSE <<>>)
        \o (IF ~Truthy(f["startDate"]) \/ ~Truthy(f["endDate"]) \/ options.reset
            THEN <<"startDate", "endDate">> ELSE <<>>)
        \o (IF LengthIsZero(f["repositories"]) \/ options.reset
            THEN <<"repositories">> ELSE <<>>)
        \o (IF LengthIsZero(f["authorEmails"]) \/ options.reset
            THEN <<"authorEmails">> ELSE <<>>)

\* What the operator answers to a prompt of GitPrompt (the validation of the
\* prompt refuses an empty first answer).
GitAnswer(key) ==
    IF key = "companyName" THEN "Acme"
    ELSE IF key = "startDate" THEN "2023-01-01"
    ELSE IF key = "endDate" THEN "2024-12-31"
    ELSE "[x]"

\* GitPrompt.promptForConfig: always a new object; a cancellation at any prompt.
GitPromptForConfig(cfg, options) ==
    LET questions == GitPromptQuestions(cfg, options)
    IN  {Throws(SubSeq(questions, 1, n), CancelMessage) : n \in 1..Len(questions)}
        \cup {Returns(questions,
                      With(cfg, [k \in Range(questions) |-> GitAnswer(k)]))}

\* What promptForConfig may resolve with: the object it was given, or a new
\* object with the plugin's own field decided.
PromptReturns(id, current) ==
    {current} \cup
    {ConfigObject(current.ref + 1, [current.fields EXCEPT ![KeyOf(id)] = v]) :
        v \in TriState}

\* What plugin.promptForConfig(currentConfig, options) may do.
PromptOutcomes(plugin, current, options) ==
    IF plugin.impl = "github" THEN GitHubPromptForConfig(current, options)
    ELSE IF plugin.impl = "template" THEN TemplatePromptForConfig(current, options)
    ELSE IF plugin.impl = "slack-ai" THEN SlackAIPromptForConfig(current, options)
    ELSE IF plugin.impl = "language" THEN LanguagePromptForConfig(current, options)
    ELSE IF plugin.impl = "git" THEN GitPromptForConfig(current, options)
    ELSE {Returns(<<>>, c) : c \in PromptReturns(plugin.id, current)}
         \cup {Throws(<<>>, e) : e \in ThrownErrors}

\* The prompts of a step as the terminal shows them.
AskedLines(id, asked) == [k \in 1..Len(asked) |-> [plugin |-> id, asked |-> asked[k]]]

\* A comparison of the returned configuration by content.
DiffersByContent(updated, current) == updated.fields # current.fields

\* updatedConfig !== currentConfig
Differs(updated, current) == updated.ref # current.ref

\* A catch that treats cancellation like any other error.
NeverCancellation(error) == FALSE

\* A catch that throws every error on.
AlwaysCancellation(error) == TRUE

\* error instanceof Error && error.message === "Configuration cancelled"
IsCancellation(error) == error = CancelMessage

\* let currentConfig = config; then the first call of getPlugins, which may
\* throw. The locals of an execute that has returned are gone.
ConfigStart(cfg, options) ==
    LET r == GetPluginsResult(plugins, sortedPlugins)
    IN  /\ pc = "idle"
        /\ op' = [name |-> "runConfigPrompts", arg |-> cfg, options |-> options]
        /\ config' = cfg
        /\ log' = <<>>
        /\ calls' = <<>>
        /\ ret' = Void
        /\ err' = r.err
        /\ sortedPlugins' = r.sortedPlugins
        /\ IF r.err # NoError
           THEN pc' = "idle" /\ iter' = <<>> /\ idx' = 0
           ELSE pc' = "cfg_loop" /\ iter' = r.sortedPlugins /\ idx' = 1
        /\ sortCalled' = r.sorted
        /\ outputs' = EmptyMap
        /\ allSections' = <<>>
        /\ deps' = EmptyMap
        /\ emitted' = <<>>
        /\ UNCHANGED <<plugins, saved>>

\* A loop that calls the next promptForConfig without awaiting the save.
CfgInvokeWithoutAwait ==
    /\ pc \in {"cfg_loop", "cfg_save"}
    /\ LET n == IF pc = "cfg_save" THEN idx + 1 ELSE idx
       IN  /\ n <= Len(iter)
           /\ calls' = Append(calls, Call(iter[n].id, "promptForConfig",
                                          [given |-> config, persisted |-> saved]))
           /\ idx' = n
    /\ pc' = "cfg_prompt"
    /\ UNCHANGED <<managerVars, callVars, iter, config, outputs, allSections,
                   deps, log, emitted, saved, sortCalled, cmd, input>>

\* plugin.promptForConfig(currentConfig, options) is called and awaited.
CfgInvoke ==
    /\ pc = "cfg_loop"
    /\ idx <= Len(iter)
    /\ calls' = Append(calls, Call(iter[idx].id, "promptForConfig",
                                   [given |-> config, persisted |-> saved]))
    /\ pc' = "cfg_prompt"
    /\ UNCHANGED <<managerVars, callVars, iter, idx, config, outputs, allSections,
                   deps, log, emitted, saved, sortCalled, cmd, input>>

\* promptForConfig resolves: a different object becomes currentConfig and
\* saveResumeConfig is called and awaited; the same object changes nothing.
CfgPromptReturns(asked, updated) ==
    /\ pc = "cfg_prompt"
    /\ calls' = Append(calls, Call(iter[idx].id, "returned", updated))
    /\ log' = log \o AskedLines(iter[idx].id, asked)
    /\ IF Differs(updated, config)
       THEN /\ config' = updated
            /\ pc' = "cfg_save"
            /\ idx' = idx
       ELSE /\ config' = config
            /\ pc' = "cfg_loop"
            /\ idx' = idx + 1
    /\ UNCHANGED <<managerVars, callVars, iter, outputs, allSections, deps,
                   emitted, saved, sortCalled, cmd, input>>

\* saveResumeConfig(currentConfig) resolves: the file holds the content.
CfgSaved ==
    /\ pc = "cfg_save"
    /\ saved' = File(config.fields)
    /\ idx' = idx + 1
    /\ pc' = "cfg_loop"
    /\ UNCHANGED <<managerVars, callVars, iter, config, outputs, allSections,
                   deps, log, calls, emitted, sortCalled, cmd, input>>

\* promptForConfig rejects: cancellation is thrown on, anything else is
\* logged and the loop goes on.
CfgPromptThrows(asked, error) ==
    /\ pc = "cfg_prompt"
    /\ calls' = Append(calls, Call(iter[idx].id, "threw", error))
    /\ IF IsCancellation(error)
       THEN /\ err' = ConfigurationCancelled(iter[idx].id)
            /\ pc' = "idle"
            /\ idx' = idx
            /\ log' = log \o AskedLines(iter[idx].id, asked)
       ELSE /\ err' = err
            /\ pc' = "cfg_loop"
            /\ idx' = idx + 1
            /\ log' = Append(log \o AskedLines(iter[idx].id, asked),
                             Line(iter[idx].id, "configFailed"))
    /\ UNCHANGED <<managerVars, op, ret, iter, config, outputs, allSections, deps,
                   emitted, saved, sortCalled, cmd, input>>

\* After the loop: return currentConfig.
ConfigReturn ==
    /\ pc = "cfg_loop"
    /\ idx > Len(iter)
    /\ ret' = config
    /\ pc' = "idle"
    /\ UNCHANGED <<managerVars, op, err, iter, idx, config, outputs, allSections,
                   deps, log, calls, emitted, saved, sortCalled, cmd, input>>

\* options?.reset: unset or set.
PromptOptions == [reset : BOOLEAN]

ConfigCall ==
    /\ UNCHANGED <<cmd, input>>
    /\ \E cfg \in ConfigInputs(saved), options \in PromptOptions :
          ConfigStart(cfg, options)

CfgPromptResolves ==
    /\ pc = "cfg_prompt"
    /\ \E o \in PromptOutcomes(iter[idx], config, op.options) :
          o.kind = "returns" /\ CfgPromptReturns(o.asked, o.value)

CfgPromptRejects ==
    /\ pc = "cfg_prompt"
    /\ \E o \in PromptOutcomes(iter[idx], config, op.options) :
          o.kind = "throws" /\ CfgPromptThrows(o.asked, o.value)

NextConfig ==
    \/ Startup
    \/ ConfigCall
    \/ CfgInvoke
    \/ CfgPromptResolves
    \/ CfgSaved
    \/ CfgPromptRejects
    \/ ConfigReturn

SpecConfig == Init /\ [][NextConfig]_vars

\* ------------------------------------------------------------------------
\* runConfigPrompts over the built-in plugins
\* ------------------------------------------------------------------------
TriStateFields ==
    {"githubToken", "templatePath", "templateContent", "slackAiFilePath",
     "slackAiContent"}

PathFields == {"templatePath", "slackAiFilePath"}

\* Values a configuration file may hold in a tri-state field.
StoredValue(key) ==
    IF key = "githubToken" THEN "ghp_secret"
    ELSE IF key \in {"templatePath", "slackAiFilePath"} THEN "/path"
    ELSE "content"

\* The fields GitPrompt decides, as a first run leaves them.
GitFieldsSet ==
    [k \in {"companyName", "startDate", "endDate", "repositories", "authorEmails"} |->
        GitAnswer(k)]

\* Configurations a caller may have loaded: the tri-state fields in any of
\* their states, a path being that of a file that may be there or of one that
\* has been removed; the fields of the git plugin not yet set or set.
BuiltinConfigs ==
    {ConfigObject(0, [k \in ConfigKeys |->
                        IF k \in TriStateFields THEN tri[k]
                        ELSE IF k \in DOMAIN git THEN git[k]
                        ELSE DefaultFields[k]]) :
        tri \in {t \in [TriStateFields -> {"$pending", "$declined", "value", "missing"}] :
                    \A k \in TriStateFields : t[k] = "missing" => k \in PathFields},
        git \in {EmptyMap, GitFieldsSet}}

Stored(cfg) ==
    [cfg EXCEPT !.fields = [k \in ConfigKeys |->
                               IF cfg.fields[k] = "value" THEN StoredValue(k)
                               ELSE IF cfg.fields[k] = "missing" THEN "/gone"
                               ELSE cfg.fields[k]]]

\* Without reset any configuration; with reset the defaults or a finished one.
BuiltinPassInputs ==
    {<<Stored(cfg), [reset |-> FALSE]>> : cfg \in BuiltinConfigs}
    \cup {<<ConfigObject(0, DefaultFields), [reset |-> TRUE]>>,
          <<With(ConfigObject(0 - 1, [k \in ConfigKeys |->
                                        IF k \in TriStateFields THEN StoredValue(k)
                                        ELSE DefaultFields[k]]), GitFieldsSet),
            [reset |-> TRUE]>>}

StartupBuiltins == InitializePlugins(Builtins)

\* The one call of runConfigPrompts a process makes, after startup.
BuiltinConfigCall ==
    /\ op.name = "initializePlugins"
    /\ UNCHANGED <<cmd, input>>
    /\ \E in \in BuiltinPassInputs : ConfigStart(in[1], in[2])

NextBuiltinConfig ==
    \/ StartupBuiltins
    \/ BuiltinConfigCall
    \/ CfgInvoke
    \/ CfgPromptResolves
    \/ CfgSaved
    \/ CfgPromptRejects
    \/ ConfigReturn

SpecBuiltinConfig == Init /\ [][NextBuiltinConfig]_vars

\* ------------------------------------------------------------------------
\* Specification of getSensitiveKeys: register and getSensitiveKeys in any order
\* ------------------------------------------------------------------------
\* What a plugin may declare as sensitiveConfigKeys.
SensitiveKeyLists ==
    {<<>>, <<"githubToken">>, <<"slackAiContent">>,
     <<"githubToken", "slackAiContent">>, <<"githubToken", "githubToken">>}

\* Plugins without needs, declaring sensitive keys or not.
SensitiveDescriptors ==
    [id : PluginIds, needs : {<<>>}, impl : {"generic"}] \cup
    [id : PluginIds, needs : {<<>>}, impl : {"generic"},
     sensitiveConfigKeys : SensitiveKeyLists]

RegisterSensitive == \E d \in SensitiveDescriptors : Register(d)

NextSensitiveKeys == RegisterSensitive \/ GetSensitiveKeys

SpecSensitiveKeys == Init /\ [][NextSensitiveKeys]_vars

\* ------------------------------------------------------------------------
\* Specification of the cache: register, getPlugins, runConfigPrompts and
\* execute called in any order on one manager
\* ------------------------------------------------------------------------
\* Two plugins, each with or without a need for the other.
CacheDescriptors ==
    {d \in Descriptors : d.id \in {"a", "b"} /\ \A k \in 1..Len(d.needs) :
                                                   d.needs[k] \in {"a", "b"} \ {d.id}}

CacheRegister == \E d \in CacheDescriptors : Register(d)

CacheConfigCall ==
    /\ UNCHANGED <<cmd, input>>
    /\ ConfigStart(ConfigObject(0, DefaultFields), [reset |-> FALSE])

CacheExecuteCall ==
    /\ UNCHANGED <<cmd, input>>
    /\ ExecuteStart(ConfigObject(0, DefaultFields))

NextCache ==
    \/ CacheRegister
    \/ GetPlugins
    \/ CacheConfigCall
    \/ CfgInvoke
    \/ CfgPromptResolves
    \/ CfgSaved
    \/ CfgPromptRejects
    \/ ConfigReturn
    \/ CacheExecuteCall
    \/ ExecCanRunThrows
    \/ ExecSkip
    \/ ExecRun
    \/ ExecGenerateResolves
    \/ ExecGenerateNull
    \/ ExecGenerateThrows
    \/ ExecuteReturn

SpecCache == Init /\ [][NextCache]_vars

\* ------------------------------------------------------------------------
\* readMultilineInput
\* ------------------------------------------------------------------------
\* Most lines the operator enters in one call.
MaxLines == 3

\* Lines the operator may enter.
TypedLines == {"text", "", "end", "--end--", "--END--", " --End-- ", "--end-- x"}

\* A trim that leaves the line as it is.
TrimNothing(line) == line

\* String.prototype.trim
Trim(line) == IF line = " --End-- " THEN "--End--" ELSE line

\* String.prototype.toLowerCase
ToLowerCase(line) == IF line \in {"--END--", "--End--"} THEN "--end--" ELSE line

\* lines.join("\n"): the lines with a newline between one and the next
RECURSIVE Join(_)
Join(lines) ==
    IF lines = <<>> THEN <<>>
    ELSE IF Len(lines) = 1 THEN <<lines[1]>>
    ELSE Join(SubSeq(lines, 1, Len(lines) - 1)) \o <<"\n", lines[Len(lines)]>>

\* resolve(value): the first call settles the promise, a later one does nothing.
Resolve(in, value) ==
    [in EXCEPT !.resolveCalls = @ + 1,
               !.result = IF in.phase = "resolved" THEN @ ELSE value,
               !.phase = "resolved"]

\* readMultilineInput(): the interface is created, handleClose listens for
\* "close", and the first question is put.
ReadStart ==
    /\ input.phase \in {"idle", "resolved"}
    /\ input' = [NoInput EXCEPT !.phase = "reading", !.closeListener = TRUE]
    /\ UNCHANGED <<managerVars, callVars, passVars, saved, sortCalled, cmd>>

\* The callback of rl.question is called with a line.
ReadLine(line) ==
    /\ input.phase = "reading"
    /\ ~input.closed
    /\ Len(input.entered) < MaxLines
    /\ LET in == [input EXCEPT !.entered = Append(@, line)]
       IN  input' =
             IF ToLowerCase(Trim(line)) = "--end--"
             THEN \* rl.off("close", handleClose); rl.close(); resolve(...)
                  Resolve([in EXCEPT !.closeListener = FALSE, !.closed = TRUE],
                          Join(in.lines))
             ELSE \* lines.push(line); readLine()
                  [in EXCEPT !.lines = Append(@, line)]
    /\ UNCHANGED <<managerVars, callVars, passVars, saved, sortCalled, cmd>>

\* Ctrl+D: the interface closes and emits "close".
ReadEof ==
    /\ input.phase = "reading"
    /\ ~input.closed
    /\ LET in == [input EXCEPT !.closed = TRUE, !.eof = TRUE]
       IN  input' = IF in.closeListener THEN Resolve(in, Join(in.lines)) ELSE in
    /\ UNCHANGED <<managerVars, callVars, passVars, saved, sortCalled, cmd>>

ReadLineAny == \E line \in TypedLines : ReadLine(line)

NextInput == ReadStart \/ ReadLineAny \/ ReadEof

SpecInput == Init /\ [][NextInput]_vars

\* ------------------------------------------------------------------------
\* The commands of the CLI: config and generate, each in a process of its own
\* ------------------------------------------------------------------------
\* Object.entries(config): the keys in the order of defaultConfig.
KeyOrder ==
    <<"companyName", "startDate", "endDate", "repositories", "authorEmails",
      "githubToken", "templatePath", "templateContent", "slackAiFilePath",
      "slackAiContent", "language", "maxCommits", "minimumCommitChanges">>

\* A line the config command writes: what it is about and the value shown.
OutLine(line, key, text) == [line |-> line, key |-> key, text |-> text]

IsArray(v) == v \in {"[]", "[x]"}

\* pair.indexOf("="), on the pair as its pieces: 0 when there is none.
EqIndex(pair) ==
    IF \E i \in 1..Len(pair) : pair[i] = "="
    THEN CHOOSE i \in 1..Len(pair) :
            pair[i] = "=" /\ \A j \in 1..i - 1 : pair[j] # "="
    ELSE 0

\* pair.slice(0, eqIndex) and pair.slice(eqIndex + 1)
PairKey(pair) == IF EqIndex(pair) = 2 THEN pair[1] ELSE ""

PairValue(pair) == IF Len(pair) > EqIndex(pair) THEN pair[EqIndex(pair) + 1] ELSE ""

\* parseValue: an array for a key that holds an array, else the string
\* (no number and no boolean is among the values passed here).
ParseValue(value, currentValue) ==
    IF IsArray(currentValue)
    THEN IF value \in {"", "[]"} THEN "[]" ELSE "[x]"
    ELSE value

\* formatValueForLog: arrays in brackets, anything else as String(value).
FormatValueForLog(value) == IF IsArray(value) THEN value ELSE value

\* formatValue
FormatValue(key, value, isSensitive) ==
    IF value = "$pending" THEN "(not set - will prompt)"
    ELSE IF value = "$declined" THEN "(declined)"
    ELSE IF isSensitive /\ ~IsArray(value) /\ value # "" THEN "(hidden)"
    ELSE IF IsArray(value) THEN (IF value = "[]" THEN "(empty)" ELSE "x")
    ELSE IF value = "" THEN "(empty)"
    ELSE value

\* The --unset loop from position i on: st is the config, the lines written
\* and whether the config was modified.
RECURSIVE UnsetFrom(_, _, _)
UnsetFrom(keys, i, st) ==
    IF i > Len(keys) THEN st
    ELSE UnsetFrom(keys, i + 1,
            IF keys[i] \notin ResumeConfigKeys
            THEN [st EXCEPT !.out = Append(@, OutLine("unknownKey", keys[i], ""))]
            ELSE [fields |-> [st.fields EXCEPT ![keys[i]] = "$pending"],
                  out |-> Append(st.out, OutLine("unset", keys[i], "")),
                  modified |-> TRUE])

\* The --set loop from position i on.
RECURSIVE SetFrom(_, _, _)
SetFrom(pairs, i, st) ==
    IF i > Len(pairs) THEN st
    ELSE SetFrom(pairs, i + 1,
            IF EqIndex(pairs[i]) = 0
            THEN [st EXCEPT !.out = Append(@, OutLine("invalidFormat", "", ""))]
            ELSE IF PairKey(pairs[i]) \notin ResumeConfigKeys
            THEN [st EXCEPT !.out = Append(@, OutLine("unknownKey", PairKey(pairs[i]), ""))]
            ELSE LET key == PairKey(pairs[i])
                     parsedValue == ParseValue(PairValue(pairs[i]), st.fields[key])
                 IN  [fields |-> [st.fields EXCEPT ![key] = parsedValue],
                      out |-> Append(st.out,
                                     OutLine("set", key, FormatValueForLog(parsedValue))),
                      modified |-> TRUE])

\* The display of the configuration, one line for each key.
Display(fields, sensitiveKeys) ==
    [k \in 1..Len(KeyOrder) |->
        OutLine("show", KeyOrder[k],
                FormatValue(KeyOrder[k], fields[KeyOrder[k]],
                            KeyOrder[k] \in sensitiveKeys))]

\* What the operator may pass to the config command.
UnsetOptions == {<<>>, <<"githubToken">>, <<"companyName">>, <<"nokey">>}

SetOptions ==
    {<<>>, <<<<"githubToken", "=", "ghp_secret">>>>, <<<<"language", "=", "French">>>>,
     <<<<"novalue">>, <<"nokey", "=", "x">>>>}

ConfigOptions == [unset : UnsetOptions, set : SetOptions]

\* What the operator may pass to the generate command: --reset is used to
\* set up, where there is no configuration file yet.
GenerateOptions(file) ==
    {[reset |-> FALSE]} \cup (IF file = NoFile THEN {[reset |-> TRUE]} ELSE {})

\* A new process: the manager is empty and initializePlugins registers the
\* built-in plugins; no pass has run.
NewProcess ==
    LET r == RegisterAllFrom(<<>>, <<>>, Builtins, 1)
    IN  /\ plugins' = r.plugins
        /\ sortedPlugins' = r.sortedPlugins
        /\ op' = [name |-> "initializePlugins", arg |-> Builtins]
        /\ err' = r.err
        /\ ret' = Void
        /\ pc' = "idle"
        /\ iter' = <<>>
        /\ idx' = 0
        /\ outputs' = EmptyMap
        /\ allSections' = <<>>
        /\ deps' = EmptyMap
        /\ calls' = <<>>
        /\ emitted' = <<>>
        /\ sortCalled' = FALSE

\* configCommand
ConfigCommand(options) ==
    LET loaded == LoadedFields(saved)
        start == [fields |-> loaded, out |-> <<>>, modified |-> FALSE]
        st == SetFrom(options.set, 1, UnsetFrom(options.unset, 1, start))
        r == RegisterAllFrom(<<>>, <<>>, Builtins, 1)
    IN  /\ cmd.phase = "done"
        /\ pc = "idle"
        /\ NewProcess
        /\ config' = ConfigObject(0, st.fields)
        /\ saved' = IF st.modified THEN File(st.fields) ELSE saved
        /\ log' = st.out
                  \o (IF st.modified THEN <<OutLine("saved", "", "")>> ELSE <<>>)
                  \o <<OutLine(IF saved = NoFile THEN "noFile" ELSE "file", "", "")>>
                  \o Display(st.fields, GetSensitiveKeysResult(r.plugins))
        /\ UNCHANGED input
        /\ cmd' = [name |-> "config", phase |-> "done", options |-> options,
                   loaded |-> loaded]

\* The fields the operator has been prompted for, as the log of the pass has them.
AskedKeys ==
    {log[k].asked : k \in {j \in 1..Len(log) : "asked" \in DOMAIN log[j]}}

\* The keys the command that has just run has unset: those of config --unset.
JustUnset ==
    IF cmd.name = "config"
    THEN {cmd.options.unset[k] : k \in 1..Len(cmd.options.unset)} \cap ResumeConfigKeys
    ELSE {}

\* The command that has just run is a generate in whose pass the operator
\* chose "Generate Slack AI prompt" and handleGeneratePrompt returned.
JustGeneratedSlackPrompt ==
    /\ cmd.name = "generate"
    /\ "channels" \in cmd.asked
    /\ \A k \in 1..Len(log) : log[k] # Line("-", "cancelled")

\* A generateCommand that runs the configuration pass in every run.
GenerateStartAlwaysConfigures(options) ==
    LET loaded == LoadedFields(saved)
    IN  /\ cmd.phase = "done"
        /\ pc = "idle"
        /\ NewProcess
        /\ config' = ConfigObject(0, IF saved = NoFile THEN DefaultFields ELSE loaded)
        /\ log' = <<>>
        /\ UNCHANGED input
        /\ cmd' = [name |-> "generate", phase |-> "configure",
                   options |-> options, loaded |-> loaded,
                   unsetBefore |-> JustUnset,
                   slackPromptBefore |-> JustGeneratedSlackPrompt, asked |-> {}]
        /\ UNCHANGED saved

\* generateCommand up to the decision whether the configuration pass is needed.
\* The command keeps what was done just before it and what it has prompted for.
GenerateStart(options) ==
    LET loaded == LoadedFields(saved)
        needsConfig == options.reset \/ saved = NoFile
    IN  /\ cmd.phase = "done"
        /\ pc = "idle"
        /\ NewProcess
        /\ config' = ConfigObject(0, IF saved = NoFile THEN DefaultFields ELSE loaded)
        /\ log' = <<>>
        /\ UNCHANGED input
        /\ cmd' = [name |-> "generate",
                   phase |-> IF needsConfig THEN "configure" ELSE "validate",
                   options |-> options, loaded |-> loaded,
                   unsetBefore |-> JustUnset,
                   slackPromptBefore |-> JustGeneratedSlackPrompt, asked |-> {}]
        /\ UNCHANGED saved

\* config = await pluginManager.runConfigPrompts(config, { reset })
GenerateConfigure ==
    /\ cmd.phase = "configure"
    /\ ConfigStart(config, [reset |-> cmd.options.reset])
    /\ UNCHANGED input
    /\ cmd' = [cmd EXCEPT !.phase = "configuring"]

\* The configuration is at hand: loaded, or returned by the pass.
GenerateHasConfig ==
    \/ cmd.phase = "validate"
    \/ cmd.phase = "configuring" /\ pc = "idle" /\ err = NoError

MissingRequired(cfg) ==
    \E k \in {"companyName", "startDate", "endDate"} : ~Truthy(cfg.fields[k])

\* "Missing required configuration": the command returns.
GenerateMissingConfig ==
    /\ GenerateHasConfig
    /\ MissingRequired(config)
    /\ log' = Append(log, Line("-", "missingRequired"))
    /\ UNCHANGED input
    /\ cmd' = [cmd EXCEPT !.phase = "done", !.asked = AskedKeys]
    /\ UNCHANGED <<managerVars, callVars, pc, iter, idx, config, outputs, allSections,
                   deps, calls, emitted, saved, sortCalled>>

\* config = { ...config, companyName, startDate, endDate }; then
\* await pluginManager.execute(config)
GenerateExecute ==
    /\ GenerateHasConfig
    /\ ~MissingRequired(config)
    /\ ExecuteStart(With(config, EmptyMap))
    /\ UNCHANGED input
    /\ cmd' = [cmd EXCEPT !.phase = "executing", !.asked = AskedKeys]

\* The catch of generateCommand: a cancellation is reported and the command
\* returns; any other error ends the process.
GenerateCatch ==
    /\ cmd.phase \in {"configuring", "executing"}
    /\ pc = "idle"
    /\ err # NoError
    /\ log' = Append(log, Line("-", IF err.kind = "ConfigurationCancelled"
                                    THEN "cancelled" ELSE "generationError"))
    /\ UNCHANGED input
    /\ cmd' = [cmd EXCEPT !.phase = "done",
                          !.asked = IF cmd.phase = "configuring" THEN AskedKeys ELSE @]
    /\ UNCHANGED <<managerVars, callVars, pc, iter, idx, config, outputs, allSections,
                   deps, calls, emitted, saved, sortCalled>>

\* execute returned: the prompt is exported and the summary printed.
GenerateFinish ==
    /\ cmd.phase = "executing"
    /\ pc = "idle"
    /\ err = NoError
    /\ log' = log \o <<Line("-", "exported"), Line("-", "summary")>>
    /\ UNCHANGED input
    /\ cmd' = [cmd EXCEPT !.phase = "done"]
    /\ UNCHANGED <<managerVars, callVars, pc, iter, idx, config, outputs, allSections,
                   deps, calls, emitted, saved, sortCalled>>

ConfigCommandAny == \E options \in ConfigOptions : ConfigCommand(options)

GenerateCommand == \E options \in GenerateOptions(saved) : GenerateStart(options)

NextCommands ==
    \/ ConfigCommandAny
    \/ GenerateCommand
    \/ GenerateConfigure
    \/ CfgInvoke
    \/ CfgPromptResolves
    \/ CfgSaved
    \/ CfgPromptRejects
    \/ ConfigReturn
    \/ GenerateMissingConfig
    \/ GenerateExecute
    \/ ExecSkip
    \/ ExecRun
    \/ ExecGenerateResolves
    \/ ExecGenerateNull
    \/ ExecGenerateThrows
    \/ ExecuteReturn
    \/ GenerateCatch
    \/ GenerateFinish

SpecCommands == Init /\ [][NextCommands]_vars

\* ------------------------------------------------------------------------
\* The whole manager: every operation, called in any order
\* ------------------------------------------------------------------------
Next == NextRegistry \/ NextExecute \/ NextConfig

Spec == Init /\ [][Next]_vars

\* ------------------------------------------------------------------------
\* The dependency relation, independently of the resolver
\* ------------------------------------------------------------------------
\* <<p, d>>: registered p lists registered d in its needs.
DependencyEdges(reg) ==
    {e \in RegisteredIds(reg) \X RegisteredIds(reg) :
        \E k \in 1..Len(Get(reg, e[1]).needs) : Get(reg, e[1]).needs[k] = e[2]}

RECURSIVE TransitiveClosure(_)
TransitiveClosure(R) ==
    LET Joined == {<<e[1], f[2]>> : e \in R, f \in R}
        Step == R \cup {p \in Joined :
                          \E e \in R, f \in R :
                             e[2] = f[1] /\ p = <<e[1], f[2]>>}
    IN  IF Step = R THEN R ELSE TransitiveClosure(Step)

DependsOn(reg) == TransitiveClosure(DependencyEdges(reg))

OnCycle(reg, id) == <<id, id>> \in DependsOn(reg)

Acyclic(reg) == \A id \in RegisteredIds(reg) : ~OnCycle(reg, id)

\* Two different plugins that depend on each other, directly or not.
HasCycleOfTwoOrMore(reg) ==
    \E x, y \in RegisteredIds(reg) :
        x # y /\ <<x, y>> \in DependsOn(reg) /\ <<y, x>> \in DependsOn(reg)

IndexOf(order, id) == CHOOSE i \in 1..Len(order) : order[i].id = id

InOrder(order, id) == \E i \in 1..Len(order) : order[i].id = id

\* ------------------------------------------------------------------------
\* Claims on the registry and the resolver (checked under SpecRegistry)
\* ------------------------------------------------------------------------

\* C1: for an acyclic registry getPlugins returns an order in which every
\* registered plugin has a position and each of its registered dependencies
\* has a smaller one: index(D) < index(P) for every D in P.needs.
C1_DependenciesFirst ==
    (op.name = "getPlugins" /\ Acyclic(plugins)) =>
        /\ err = NoError
        /\ \A i \in 1..Len(plugins) :
              /\ InOrder(ret, plugins[i].id)
              /\ \A k \in 1..Len(plugins[i].needs) :
                    Has(plugins, plugins[i].needs[k]) =>
                        /\ InOrder(ret, plugins[i].needs[k])
                        /\ IndexOf(ret, plugins[i].needs[k])
                              < IndexOf(ret, plugins[i].id)

\* A dependent registered before both of its two dependencies, resolved.
C1_Witness ==
    /\ op.name = "getPlugins"
    /\ err = NoError
    /\ Len(plugins) = 3
    /\ Len(plugins[1].needs) = 2
    /\ \A k \in 1..2 : Has(plugins, plugins[1].needs[k])
    /\ Acyclic(plugins)
    /\ ret[3] = plugins[1]

\* C7: register of an identity already present fails and leaves the registry
\* and the cached order as they were; register of a new identity appends the
\* descriptor and empties the cached order.
C7_Register ==
    [][op'.name = "register" =>
          IF Has(plugins, op'.arg.id)
          THEN /\ err' = DuplicateIdentity(op'.arg.id)
               /\ plugins' = plugins
               /\ sortedPlugins' = sortedPlugins
          ELSE /\ err' = NoError
               /\ plugins' = Append(plugins, op'.arg)
               /\ sortedPlugins' = <<>>]_vars

\* A second, different descriptor for a registered identity was rejected while
\* an order was cached.
C7_Witness ==
    /\ op.name = "register"
    /\ err.kind = "DuplicateIdentity"
    /\ Len(sortedPlugins) = Len(plugins)
    /\ Len(plugins) >= 2
    /\ op.arg # Get(plugins, op.arg.id)

\* C8: when two or more registered plugins depend on each other in a cycle,
\* getPlugins fails with a circular-dependency error whose named identity lies
\* on a cycle.
C8_CycleRejected ==
    (op.name = "getPlugins" /\ HasCycleOfTwoOrMore(plugins)) =>
        /\ err.kind = "CircularDependency"
        /\ OnCycle(plugins, err.plugin)
        /\ sortedPlugins = <<>>

\* A cycle through all three plugins, none of them needing itself or forming
\* a cycle of two, was rejected.
C8_Witness ==
    /\ op.name = "getPlugins"
    /\ err.kind = "CircularDependency"
    /\ Len(plugins) = 3
    /\ \A i \in 1..3 : Len(plugins[i].needs) = 1
    /\ \A i, j \in 1..3 : i # j => plugins[i].needs # plugins[j].needs
    /\ \A i \in 1..3 : plugins[i].needs[1] # plugins[i].id
    /\ \A i, j \in 1..3 :
          ~(plugins[i].needs[1] = plugins[j].id /\ plugins[j].needs[1] = plugins[i].id)

\* ------------------------------------------------------------------------
\* Claims on execute (checked under SpecExecute)
\* ------------------------------------------------------------------------
Consulted(id) ==
    \E k \in 1..Len(calls) : calls[k].plugin = id /\ calls[k].step = "canRun"

Ran(id) ==
    \E k \in 1..Len(calls) : calls[k].plugin = id /\ calls[k].step = "generateContent"

LinesOf(id) == {log[k].line : k \in {j \in 1..Len(log) : log[j].plugin = id}}

ExecuteOver == op.name = "execute" /\ pc = "idle"

AllowedToEscape ==
    {"none", "DuplicateIdentity", "CircularDependency", "ConfigurationCancelled"}

\* C2: once a plugin's generateContent has thrown, the error is logged, the
\* plugin has no output, execute does not abort and every later plugin of the
\* order is still consulted.
C2_RunStepFailureIsolated ==
    \A k \in 1..Len(log) :
        (op.name = "execute" /\ log[k].line = "error") =>
            /\ log[k].plugin \notin DOMAIN outputs
            /\ err = NoError
            /\ pc = "idle" => \A i \in 1..Len(iter) : Consulted(iter[i].id)

\* C3: no error of a plugin's canRun escapes execute: only DuplicateIdentity,
\* CircularDependency and ConfigurationCancelled leave the public operations.
C3_CanRunErrorRecovered ==
    op.name = "execute" => err.kind \in AllowedToEscape

\* C4: the deps object handed to canRun and generateContent of plugin P holds
\* an entry for X exactly when X is in P.needs and X's output was recorded
\* earlier in the run, and the entry is that output; outputs of plugins P does
\* not need are never in it.
C4_DepsRestricted ==
    \A k \in 1..Len(calls) :
        calls[k].step \in {"canRun", "generateContent"} =>
            LET P == iter[IndexOf(iter, calls[k].plugin)]
                Earlier == {iter[i].id : i \in 1..IndexOf(iter, P.id) - 1}
            IN  /\ DOMAIN calls[k].arg =
                      Range(P.needs) \cap Earlier \cap DOMAIN outputs
                /\ \A X \in DOMAIN calls[k].arg : calls[k].arg[X] = outputs[X]

\* A plugin ran with the output of the plugin it needs in deps while the
\* output of another plugin, which it does not need, was recorded.
C4_Witness ==
    \E k \in 1..Len(calls) :
        /\ calls[k].step = "generateContent"
        /\ DOMAIN calls[k].arg # {}
        /\ \E X \in DOMAIN outputs :
              /\ X \notin Range(iter[IndexOf(iter, calls[k].plugin)].needs)
              /\ IndexOf(iter, X) < IndexOf(iter, calls[k].plugin)

\* C5: when git was found eligible or not but left no output (it threw, was
\* skipped or returned null), github is still asked canRun, with no entry for
\* git in deps, answers false and is skipped silently: its generateContent is
\* not called, nothing but the skip line is logged for it, and no error
\* leaves execute.
C5_DependentSkipped ==
    (/\ op.name = "execute"
     /\ InOrder(iter, "github")
     /\ Consulted("git")
     /\ "git" \notin DOMAIN outputs
     /\ idx > IndexOf(iter, "git")
     /\ pc # "exec_generate") =>
        /\ err = NoError
        /\ idx > IndexOf(iter, "github") =>
              /\ \E k \in 1..Len(calls) : calls[k] = Call("github", "canRun", EmptyMap)
              /\ ~Ran("github")
              /\ LinesOf("github") = {"skipping"}
              /\ "github" \notin DOMAIN outputs
        /\ pc = "idle" => idx > IndexOf(iter, "github") /\ ret = allSections

\* git's generateContent threw, a token is configured, and execute returned
\* with github skipped.
C5_Witness ==
    /\ ExecuteOver
    /\ err = NoError
    /\ config.fields["githubToken"] = "value"
    /\ "error" \in LinesOf("git")
    /\ LinesOf("github") = {"skipping"}

PositionIn(s, x) == CHOOSE i \in 1..Len(s) : s[i] = x

\* C6: what execute returns is a permutation of the sections the plugins
\* returned, in ascending priority, sections of equal priority in the order
\* they were returned: the order the plugins ran in, then the order within
\* each result.
C6_SortedStablePermutation ==
    (ExecuteOver /\ err = NoError) =>
        /\ Len(ret) = Len(emitted)
        /\ Range(ret) = Range(emitted)
        /\ \A i, j \in 1..Len(ret) :
              i < j => ret[i].priority <= ret[j].priority
        /\ \A i, j \in 1..Len(emitted) :
              (i < j /\ emitted[i].priority = emitted[j].priority) =>
                  PositionIn(ret, emitted[i]) < PositionIn(ret, emitted[j])
        /\ \A i, j \in 1..Len(emitted) :
              i < j =>
                  \/ IndexOf(iter, emitted[i].sourcePlugin)
                        < IndexOf(iter, emitted[j].sourcePlugin)
                  \/ /\ emitted[i].sourcePlugin = emitted[j].sourcePlugin
                     /\ emitted[i].title < emitted[j].title

\* The sort moved a section forward past two sections of equal priority, one
\* of them from the same plugin and one from another.
C6_Witness ==
    /\ ExecuteOver
    /\ err = NoError
    /\ ret # emitted
    /\ \E i, j, k \in 1..Len(ret) :
          /\ i < j /\ j < k
          /\ ret[i].priority = ret[j].priority
          /\ ret[i].sourcePlugin # ret[j].sourcePlugin
          /\ ret[j].priority = ret[k].priority
          /\ ret[j].sourcePlugin = ret[k].sourcePlugin

\* ------------------------------------------------------------------------
\* Claims on runConfigPrompts (checked under SpecConfig)
\* ------------------------------------------------------------------------
Largest(S) == CHOOSE m \in S : \A x \in S : x <= m

\* The steps before call k that resolved with another object than they were given.
ChangesBefore(k) ==
    {j \in 2..k - 1 :
        /\ calls[j].step = "returned"
        /\ calls[j].arg.ref # calls[j - 1].arg.given.ref}

C10_CancellationStops ==
    \A k \in 1..Len(calls) :
        (/\ op.name = "runConfigPrompts"
         /\ calls[k].step = "threw"
         /\ calls[k].arg = CancelMessage) =>
            /\ k = Len(calls)
            /\ pc = "idle"
            /\ err = ConfigurationCancelled(calls[k].plugin)
            /\ ret = Void
            /\ saved = calls[k - 1].arg.persisted

\* The third step cancelled after the first two had their changes saved.
C10_Witness ==
    /\ op.name = "runConfigPrompts"
    /\ Len(calls) = 6
    /\ calls[6].step = "threw"
    /\ calls[6].arg = CancelMessage
    /\ Cardinality(ChangesBefore(6)) = 2
    /\ saved # NoFile
    /\ saved = File(config.fields)
    /\ config.fields # op.arg.fields

\* The plugins whose configuration step has been invoked in the running pass.
Prompted == {calls[k].plugin : k \in {j \in 1..Len(calls) : calls[j].step = "promptForConfig"}}

\* C11: an error of a configuration step that is not the cancellation is
\* logged and the pass goes on: the configuration and the file stay what they
\* were when the step was invoked, the next plugin of the order is invoked
\* with that configuration, and a pass that ends normally has invoked every
\* plugin and returns the current configuration.
C11_OtherErrorContinues ==
    \A k \in 1..Len(calls) :
        (/\ op.name = "runConfigPrompts"
         /\ calls[k].step = "threw"
         /\ calls[k].arg # CancelMessage) =>
            LET before == calls[k - 1].arg
                pos == IndexOf(iter, calls[k].plugin)
            IN  /\ Line(calls[k].plugin, "configFailed") \in Range(log)
                /\ k = Len(calls) =>
                      /\ config = before.given
                      /\ saved = before.persisted
                      /\ err = NoError
                      /\ pc = "cfg_loop" \/ (pc = "idle" /\ pos = Len(iter))
                /\ k < Len(calls) =>
                      /\ pos < Len(iter)
                      /\ calls[k + 1] = Call(iter[pos + 1].id, "promptForConfig", before)
                /\ (pc = "idle" /\ err = NoError) =>
                      /\ ret = config
                      /\ Prompted = {iter[i].id : i \in 1..Len(iter)}

\* The second of three steps failed after the first had changed the
\* configuration; the third was invoked and the pass returned.
C11_Witness ==
    /\ op.name = "runConfigPrompts"
    /\ pc = "idle"
    /\ err = NoError
    /\ Len(iter) = 3
    /\ Len(calls) = 6
    /\ calls[4].step = "threw"
    /\ calls[4].arg # CancelMessage
    /\ ChangesBefore(4) # {}
    /\ ret = config
    /\ config.fields # op.arg.fields

\* ------------------------------------------------------------------------
\* Further claims on execute (checked under SpecExecute)
\* ------------------------------------------------------------------------
\* The plugin's step of the running pass is over.
StepOver(id) == InOrder(iter, id) /\ IndexOf(iter, id) < idx

\* C12 as stated: a plugin has an output in a run exactly when its canRun
\* returned true and its generateContent completed without an error.
C12_OutputIffEligibleAndCompleted ==
    op.name = "execute" =>
        \A i \in 1..Len(iter) :
            iter[i].id \in DOMAIN outputs <=>
                /\ Ran(iter[i].id)
                /\ StepOver(iter[i].id)
                /\ "error" \notin LinesOf(iter[i].id)

\* C12 amended: a plugin has an output in a run exactly when its canRun
\* returned true and its generateContent completed without an error and with
\* a result that is not null, whether or not the result carries sections.
C12_OutputIffRanWithResult ==
    op.name = "execute" =>
        \A i \in 1..Len(iter) :
            iter[i].id \in DOMAIN outputs <=>
                /\ Ran(iter[i].id)
                /\ StepOver(iter[i].id)
                /\ LinesOf(iter[i].id) \cap {"error", "null"} = {}

\* A run over three plugins that is over: one returned a result without
\* sections and has an output, one returned null and one was skipped, and
\* these two have none.
C12_Witness ==
    /\ ExecuteOver
    /\ err = NoError
    /\ Len(iter) = 3
    /\ \E x, y, z \in DOMAIN outputs \cup {iter[i].id : i \in 1..3} :
          /\ "noContent" \in LinesOf(x) /\ x \in DOMAIN outputs
          /\ "null" \in LinesOf(y) /\ y \notin DOMAIN outputs
          /\ "skipping" \in LinesOf(z) /\ z \notin DOMAIN outputs

\* ------------------------------------------------------------------------
\* Claims on the built-in configuration steps (checked under SpecBuiltinConfig)
\* ------------------------------------------------------------------------
\* The tri-state fields a built-in plugin decides.
OwnFields(id) ==
    IF id = "github" THEN {"githubToken"}
    ELSE IF id = "template" THEN {"templatePath", "templateContent"}
    ELSE IF id = "slack-ai" THEN {"slackAiFilePath", "slackAiContent"}
    ELSE {}

\* The prompts a plugin has put to the operator in the running pass.
AskedBy(id) ==
    {log[k].asked :
        k \in {j \in 1..Len(log) : "asked" \in DOMAIN log[j] /\ log[j].plugin = id}}

ConcreteValue(v) == v \notin {"$pending", "$declined", "", "[]"}

\* The values the sensitive fields hold before and after the config command.
SensitiveValues ==
    {v \in {cmd.loaded[k] : k \in GetSensitiveKeysResult(plugins)}
           \cup {config.fields[k] : k \in GetSensitiveKeysResult(plugins)} :
        ConcreteValue(v)}

\* C14: the config command never writes the concrete value of a field that a
\* registered plugin declares sensitive, whatever it is asked to set, unset
\* or display.
C14_SensitiveNeverPlain ==
    cmd.name = "config" =>
        \A i \in 1..Len(log) : log[i].text \notin SensitiveValues

\* ------------------------------------------------------------------------
\* config --unset, then generate
\* ------------------------------------------------------------------------
\* C15: when config --unset has set a key of the configuration to "$pending",
\* the run of generate that follows prompts the operator for that key.
C15_UnsetPromptedOnNextGenerate ==
    (cmd.name = "generate" /\ cmd.phase = "done") =>
        \A key \in cmd.unsetBefore :
            cmd.loaded[key] = "$pending" => key \in cmd.asked

\* ------------------------------------------------------------------------
\* The order of the built-in plugins
\* ------------------------------------------------------------------------
\* The ids of a sequence of plugins, in its order.
IdsOf(order) == [k \in 1..Len(order) |-> order[k].id]

\* C16: the order in which the generate command runs the built-in plugins
\* registered by initializePlugins is git, github, slack-ai, template, language.
C16_BuiltinOrder ==
    (cmd.name = "generate" /\ pc # "idle") =>
        IdsOf(iter) = <<"git", "github", "slack-ai", "template", "language">>

\* ------------------------------------------------------------------------
\* One plugin at a time
\* ------------------------------------------------------------------------
OfPlugin(l) == l.plugin # "-"

IsStart(l) == l.line \in {"skipping", "running"}

IsOutcome(l) == l.line \in {"generated", "noContent", "null", "error"}

\* What execute has logged about plugins, and the lines that begin a step.
PluginLines == SelectSeq(log, OfPlugin)

StartLines == SelectSeq(PluginLines, IsStart)

\* The configuration pass: calls and their ends alternate, plugin after
\* plugin in the order; a step is pending exactly while its end is missing;
\* and a step begins with the file holding what the step before has changed.
CfgOneAtATime ==
    /\ \A j \in 1..Len(calls) :
          IF j % 2 = 1
          THEN /\ calls[j].step = "promptForConfig"
               /\ (j + 1) \div 2 <= Len(iter)
               /\ calls[j].plugin = iter[(j + 1) \div 2].id
          ELSE /\ calls[j].step \in {"returned", "threw"}
               /\ calls[j].plugin = calls[j - 1].plugin
    /\ pc = "cfg_prompt" <=> Len(calls) % 2 = 1
    /\ pc = "cfg_save" => Len(calls) > 0 /\ calls[Len(calls)].step = "returned"
    /\ \A j \in 3..Len(calls) :
          (/\ j % 2 = 1
           /\ calls[j - 1].step = "returned"
           /\ Differs(calls[j - 1].arg, calls[j - 2].arg.given))
          => calls[j].arg.persisted = File(calls[j - 1].arg.fields)

\* The execution pass: every generateContent that was started is followed at
\* once by its end, but the last while it is pending; steps begin plugin
\* after plugin in the order.
ExecOneAtATime ==
    /\ \A j \in 1..Len(PluginLines) :
          /\ PluginLines[j].line = "running" =>
                IF j = Len(PluginLines)
                THEN pc = "exec_generate"
                ELSE /\ IsOutcome(PluginLines[j + 1])
                     /\ PluginLines[j + 1].plugin = PluginLines[j].plugin
          /\ IsOutcome(PluginLines[j]) =>
                j > 1 /\ PluginLines[j - 1].line = "running"
    /\ pc = "exec_generate" =>
          Len(PluginLines) > 0 /\ PluginLines[Len(PluginLines)].line = "running"
    /\ \A i \in 1..Len(StartLines) :
          i <= Len(iter) /\ StartLines[i].plugin = iter[i].id

\* C17: in the configuration pass and in the execution pass the plugins are
\* processed one at a time in the order of getPlugins: the step of a plugin,
\* the save that follows it included, has resolved or rejected before the
\* step of the next plugin begins.
C17_OneStepAtATime ==
    /\ op.name = "runConfigPrompts" => CfgOneAtATime
    /\ op.name = "execute" => ExecOneAtATime

\* A generate run that has prompted and saved in its configuration pass and
\* has run two plugins to their end in its execution pass.
C17_Witness ==
    /\ cmd.name = "generate"
    /\ cmd.asked # {}
    /\ saved # NoFile
    /\ op.name = "execute"
    /\ pc = "idle"
    /\ Len(SelectSeq(PluginLines, IsOutcome)) >= 2
    /\ \E j \in 1..Len(PluginLines) : PluginLines[j].line = "skipping"

\* ------------------------------------------------------------------------
\* getSensitiveKeys
\* ------------------------------------------------------------------------
\* A registered plugin declares the key sensitive.
Declares(plugin, key) ==
    /\ "sensitiveConfigKeys" \in DOMAIN plugin
    /\ \E k \in 1..Len(plugin.sensitiveConfigKeys) : plugin.sensitiveConfigKeys[k] = key

\* C18: getSensitiveKeys returns the union of the sensitive keys the
\* registered plugins declare: a key is in the result if and only if at least
\* one registered plugin declares it.
C18_SensitiveKeysUnion ==
    op.name = "getSensitiveKeys" =>
        /\ ret \subseteq ResumeConfigKeys
        /\ \A key \in ResumeConfigKeys :
              key \in ret <=> \E i \in 1..Len(plugins) : Declares(plugins[i], key)

\* Three plugins, one declaring nothing and two declaring different keys, and
\* a result holding both keys.
C18_Witness ==
    /\ op.name = "getSensitiveKeys"
    /\ Len(plugins) = 3
    /\ \E i \in 1..3 : "sensitiveConfigKeys" \notin DOMAIN plugins[i]
    /\ \E i, j \in 1..3 :
          /\ Declares(plugins[i], "githubToken") /\ ~Declares(plugins[i], "slackAiContent")
          /\ Declares(plugins[j], "slackAiContent") /\ ~Declares(plugins[j], "githubToken")
    /\ ret = {"githubToken", "slackAiContent"}

\* ------------------------------------------------------------------------
\* The cache of the order
\* ------------------------------------------------------------------------
\* A public operation that uses the order is called.
OrderCall ==
    pc = "idle" /\ op'.name \in {"getPlugins", "runConfigPrompts", "execute"}

RegisterCall == pc = "idle" /\ op'.name = "register"

\* The order the operation called last has used.
UsedOrder == IF op.name = "getPlugins" THEN ret ELSE iter

\* C19: the order is cached. A call of getPlugins, runConfigPrompts or execute
\* that finds an order in the cache does not sort and uses that order; only a
\* successful register empties the cache, and the call that follows it sorts
\* again and uses an order of all the registered plugins, the new one included.
C19_OrderCached ==
    [][/\ (OrderCall /\ sortedPlugins # <<>>) =>
              /\ ~sortCalled'
              /\ err' = NoError
              /\ sortedPlugins' = sortedPlugins
              /\ UsedOrder' = sortedPlugins
       /\ (OrderCall /\ sortedPlugins = <<>> /\ plugins # <<>>) =>
              /\ sortCalled'
              /\ err' = NoError =>
                    /\ RegisteredIds(sortedPlugins') = RegisteredIds(plugins)
                    /\ Len(sortedPlugins') = Len(plugins)
                    /\ UsedOrder' = sortedPlugins'
       /\ OrderCall => plugins' = plugins
       /\ RegisterCall =>
              IF err' = NoError
              THEN sortedPlugins' = <<>> /\ plugins' = Append(plugins, op'.arg)
              ELSE sortedPlugins' = sortedPlugins /\ plugins' = plugins
       /\ pc # "idle" => sortedPlugins' = sortedPlugins /\ plugins' = plugins
      ]_vars

\* A pass over two plugins that has used the order an earlier call had left
\* in the cache.
C19_Witness ==
    /\ op.name \in {"runConfigPrompts", "execute"}
    /\ pc = "idle"
    /\ err = NoError
    /\ ~sortCalled
    /\ Len(iter) = 2
    /\ iter = sortedPlugins

\* ------------------------------------------------------------------------
\* The order as a function of the registration sequence
\* ------------------------------------------------------------------------
Listed(order, id) == \E k \in 1..Len(order) : order[k] = id

\* The depth-first post-order of a registry without cycles: the ids visited
\* from position i of a list on, each after its needs in declared order,
\* added to the ids already listed.
RECURSIVE PostOrderFrom(_, _, _, _)
PostOrderFrom(reg, ids, i, listed) ==
    IF i > Len(ids) THEN listed
    ELSE IF Listed(listed, ids[i]) \/ ~Has(reg, ids[i])
         THEN PostOrderFrom(reg, ids, i + 1, listed)
         ELSE PostOrderFrom(reg, ids, i + 1,
                  Append(PostOrderFrom(reg, Get(reg, ids[i]).needs, 1, listed), ids[i]))

RegistrationOrder(reg) == [k \in 1..Len(reg) |-> reg[k].id]

\* C (needs B), B (needs A), A, registered in that order.
ChainExample ==
    <<[id |-> "c", needs |-> <<"b">>, impl |-> "generic"],
      [id |-> "b", needs |-> <<"a">>, impl |-> "generic"],
      [id |-> "a", needs |-> <<>>, impl |-> "generic"]>>

Skipped(id) == "skipping" \in LinesOf(id)

\* C21: a plugin whose canRun returns false during execute is skipped
\* entirely: its generateContent is never called, no output is recorded for
\* it, no section of it is collected, nothing else is logged for it, and no
\* error is raised: the loop has gone on to the next plugin.
C21_SkippedEntirely ==
    op.name = "execute" =>
        \A i \in 1..Len(iter) :
            Skipped(iter[i].id) =>
                /\ ~Ran(iter[i].id)
                /\ iter[i].id \notin DOMAIN outputs
                /\ \A k \in 1..Len(allSections) : allSections[k].sourcePlugin # iter[i].id
                /\ \A k \in 1..Len(emitted) : emitted[k].sourcePlugin # iter[i].id
                /\ LinesOf(iter[i].id) = {"skipping"}
                /\ StepOver(iter[i].id)
                /\ err.plugin # iter[i].id

\* A run that is over without an error in which a plugin was skipped between
\* two plugins that ran and left outputs and sections.
C21_Witness ==
    /\ ExecuteOver
    /\ err = NoError
    /\ Len(iter) = 3
    /\ Skipped(iter[2].id)
    /\ {iter[1].id, iter[3].id} \subseteq DOMAIN outputs
    /\ \E j, k \in 1..Len(allSections) :
          allSections[j].sourcePlugin = iter[1].id /\ allSections[k].sourcePlugin = iter[3].id

\* C22: within one run of execute the outputs are write-once and append-only:
\* the run starts with none, a step adds at most the output of the plugin it
\* runs, under an identity that has none yet, and never changes or removes an
\* entry; a new run starts with none again.
C22_OutputsWriteOnce ==
    [][/\ (pc = "idle" /\ op'.name = "execute") => outputs' = EmptyMap
       /\ (pc # "idle" /\ op.name = "execute") =>
              /\ DOMAIN outputs \subseteq DOMAIN outputs'
              /\ \A x \in DOMAIN outputs : outputs'[x] = outputs[x]
              /\ outputs' # outputs =>
                    /\ pc = "exec_generate"
                    /\ DOMAIN outputs' \ DOMAIN outputs = {iter[idx].id}
      ]_vars

\* A run that used the order an earlier run had cached and recorded three
\* outputs, not all the same payload.
C22_Witness ==
    /\ ExecuteOver
    /\ ~sortCalled
    /\ Cardinality(DOMAIN outputs) = 3
    /\ \E x, y \in DOMAIN outputs : outputs[x] # outputs[y]

\* ------------------------------------------------------------------------
\* Slack AI context and files that have been removed
\* ------------------------------------------------------------------------
\* C23: when the operator has chosen "Generate Slack AI prompt" in the
\* slack-ai step of a run of generate, which stores "$pending" in
\* slackAiFilePath and slackAiContent, the next run of generate asks again
\* for the Slack AI context.
C23_SlackAskedAgain ==
    (cmd.name = "generate" /\ cmd.phase = "done" /\ cmd.slackPromptBefore) =>
        /\ cmd.loaded["slackAiFilePath"] = "$pending"
        /\ cmd.loaded["slackAiContent"] = "$pending"
        /\ "slackChoice" \in cmd.asked

PathKey(id) == IF id = "template" THEN "templatePath" ELSE "slackAiFilePath"

ContentKey(id) == IF id = "template" THEN "templateContent" ELSE "slackAiContent"

ChoiceOf(id) == IF id = "template" THEN "templateChoice" ELSE "slackChoice"

\* C24: without reset, the step of template or slack-ai that is given a
\* concrete file path whose file no longer exists, and no inline content,
\* puts its choice to the operator again instead of returning the
\* configuration unchanged; so it does when the inline content is "$declined",
\* as the file option leaves it.
C24_MissingFileReprompts ==
    (op.name = "runConfigPrompts" /\ ~op.options.reset) =>
        \A k \in 1..Len(calls) - 1 :
            (/\ calls[k].step = "promptForConfig"
             /\ calls[k].plugin \in {"template", "slack-ai"}
             /\ calls[k].arg.given.fields[PathKey(calls[k].plugin)] \in MissingFiles
             /\ ~IsSet(calls[k].arg.given.fields[ContentKey(calls[k].plugin)]))
            => /\ ChoiceOf(calls[k].plugin) \in AskedBy(calls[k].plugin)
               /\ calls[k + 1].step = "returned" =>
                     Differs(calls[k + 1].arg, calls[k].arg.given)

\* ------------------------------------------------------------------------
\* readMultilineInput (checked under SpecInput)
\* ------------------------------------------------------------------------
\* The lines that end the input: "--end--" in any case, with or without
\* spaces around it.
EndLines == {"--end--", "--END--", " --End-- "}

\* The lines entered before the first that ends the input.
RECURSIVE BeforeEnd(_)
BeforeEnd(entered) ==
    IF entered = <<>> \/ entered[1] \in EndLines THEN <<>>
    ELSE <<entered[1]>> \o BeforeEnd(Tail(entered))

\* The text of lines, each but the last followed by a newline.
RECURSIVE Joined(_)
Joined(lines) ==
    IF lines = <<>> THEN <<>>
    ELSE IF Len(lines) = 1 THEN lines
    ELSE <<lines[1], "\n">> \o Joined(Tail(lines))

\* C25: readMultilineInput resolves exactly once, with the lines entered so
\* far joined by newlines in the order of entry: a line that is "--end--"
\* after trimming, in any case, ends the input and is not in the result; the
\* end of the input stream ends it with the lines collected before.
C25_ResolvesOnceWithLines ==
    /\ input.resolveCalls <= 1
    /\ input.phase = "resolved" <=> input.resolveCalls = 1
    /\ input.phase = "reading" =>
          /\ \A k \in 1..Len(input.entered) : input.entered[k] \notin EndLines
          /\ ~input.eof
    /\ input.phase = "resolved" =>
          /\ input.result = Joined(BeforeEnd(input.entered))
          /\ \A k \in 1..Len(input.result) : input.result[k] \notin EndLines
          /\ input.eof <=> \A k \in 1..Len(input.entered) : input.entered[k] \notin EndLines

\* The input was ended by " --End-- " after two lines, one of them holding
\* "--end--" and more, and has resolved with both.
C25_Witness ==
    /\ input.phase = "resolved"
    /\ input.entered = <<"text", "--end-- x", " --End-- ">>
    /\ input.result = <<"text", "\n", "--end-- x">>

\* ------------------------------------------------------------------------
\* Further claims on the resolver
\* ------------------------------------------------------------------------
\* How often the plugin is in the order.
Occurrences(order, plugin) == Cardinality({k \in 1..Len(order) : order[k] = plugin})

\* C26: for a registry without a cycle the order getPlugins returns holds
\* every registered plugin exactly once, and nothing else, however many
\* plugins need the same plugin.
C26_EveryPluginOnce ==
    (op.name = "getPlugins" /\ err = NoError) =>
        /\ Len(ret) = Len(plugins)
        /\ \A i \in 1..Len(plugins) : Occurrences(ret, plugins[i]) = 1
        /\ \A k \in 1..Len(ret) : \E i \in 1..Len(plugins) : plugins[i] = ret[k]

\* Two plugins need the third, one of them the other as well, and getPlugins
\* has returned an order of the three.
C26_Witness ==
    /\ op.name = "getPlugins"
    /\ err = NoError
    /\ Len(plugins) = 3
    /\ \E x, y, z \in 1..3 :
          /\ x # y /\ y # z /\ x # z
          /\ plugins[z].needs = <<>>
          /\ plugins[y].needs = <<plugins[z].id>>
          /\ plugins[x].needs = <<plugins[y].id, plugins[z].id>>
    /\ Len(ret) = 3

\* The plugins a plugin needs, directly or through others, among the
\* registered ones: the needs followed n times.
RECURSIVE NeedsWithin(_, _, _)
NeedsWithin(reg, id, n) ==
    IF n = 0 \/ ~Has(reg, id) THEN {}
    ELSE LET direct == Range(Get(reg, id).needs) \cap RegisteredIds(reg)
         IN  direct \cup UNION {NeedsWithin(reg, d, n - 1) : d \in direct}

\* Some registered plugin needs itself, directly or through others.
Cyclic(reg) == \E i \in 1..Len(reg) : reg[i].id \in NeedsWithin(reg, reg[i].id, Len(reg))

\* C27: while the registered plugins depend on each other in a cycle, no
\* order is cached and no pass is under way, and every call of runConfigPrompts or execute raises the
\* circular-dependency error before it calls promptForConfig, canRun or
\* generateContent of any plugin and before any save, leaving the cache empty.
C27_CycleRaisedByPasses ==
    [][Cyclic(plugins) =>
          /\ sortedPlugins = <<>>
          /\ pc = "idle"
          /\ op'.name \in {"runConfigPrompts", "execute"} =>
                /\ err'.kind = "CircularDependency"
                /\ sortCalled'
                /\ pc' = "idle"
                /\ calls' = <<>>
                /\ saved' = saved
                /\ sortedPlugins' = <<>>
                /\ plugins' = plugins
      ]_vars

\* runConfigPrompts has raised the error for two plugins that need each other
\* while an earlier pass, run when one of them was registered alone, had saved
\* a configuration.
C27_Witness ==
    /\ op.name = "runConfigPrompts"
    /\ err.kind = "CircularDependency"
    /\ Len(plugins) = 2
    /\ Cyclic(plugins)
    /\ saved # NoFile
    /\ pc = "idle"
    /\ calls = <<>>

\* ------------------------------------------------------------------------
\* Needs that name no registered plugin (checked under SpecExecute)
\* ------------------------------------------------------------------------
\* The ids a plugin needs that are not registered.
Unregistered(plugin) == Range(plugin.needs) \ RegisteredIds(plugins)

\* C28: a needs entry that names an id never registered is ignored: the sort
\* raises no error for it and orders the registered plugins so that every
\* registered plugin a plugin needs comes before it, and the deps handed to
\* the plugin that has the entry never hold that id.
C28_UnregisteredNeedIgnored ==
    (op.name = "execute" /\ \E i \in 1..Len(plugins) : Unregistered(plugins[i]) # {}) =>
        /\ ~Cyclic(plugins) =>
              /\ err.kind # "CircularDependency"
              /\ Len(iter) = Len(plugins)
              /\ RegisteredIds(iter) = RegisteredIds(plugins)
              /\ \A i, j \in 1..Len(iter) :
                    iter[j].id \in Range(iter[i].needs) => j < i
        /\ \A k \in 1..Len(calls) :
              DOMAIN calls[k].arg \cap
                  Unregistered(Get(plugins, calls[k].plugin)) = {}
        /\ DOMAIN deps \subseteq RegisteredIds(plugins)

\* A plugin that needs an unregistered plugin and, after it, a registered
\* one has run with the output of the registered one alone in deps.
C28_Witness ==
    /\ ExecuteOver
    /\ err = NoError
    /\ \E k \in 1..Len(calls) :
          LET P == Get(plugins, calls[k].plugin)
          IN  /\ calls[k].step = "generateContent"
              /\ Unregistered(P) # {}
              /\ Len(P.needs) = 2
              /\ DOMAIN calls[k].arg = Range(P.needs) \cap RegisteredIds(plugins)
              /\ DOMAIN calls[k].arg # {}

\* ------------------------------------------------------------------------
\* The passes of the generate command (checked under SpecCommands)
\* ------------------------------------------------------------------------
Exported(lines) == \E k \in 1..Len(lines) : lines[k] = Line("-", "exported")

====
